---- MODULE Spec2Model ----
(***************************************************************************)
(* A model of the VibeLang compiler (Mec-iS/vibelang-rs): the lexer and    *)
(* the recursive descent parser with panic-mode recovery                   *)
(* (compiler/parser.rs), the code                                          *)
(* generator and its resolver tables (compiler/codegen.rs), the decoders   *)
(* the generator emits, and the runtime value conversions                  *)
(* (runtime/types.rs).                                                     *)
(*                                                                         *)
(* Conventions.  Option<T> is a sequence: <<>> is None, <<x>> is Some(x).  *)
(* Strings are TLA+ strings, read character by character with SubSeq.      *)
(* The parser cursor `current` is 0-based as in the source, so the token   *)
(* under the cursor is tokens[current + 1].  Token line and column only    *)
(* feed diagnostics: the tokens the lexer builds carry them, the token     *)
(* streams given to the parser leave them out.                             *)
(***************************************************************************)
EXTENDS Integers, Sequences, FiniteSets, TLC

VARIABLES
    pc,             \* position of the running operation
    tokens,         \* Parser.tokens
    current,        \* Parser.current
    program,        \* the Program node under construction in parse_program
    parse_errors,   \* number of "Parse error" lines parse_program has logged
    family,         \* which family of sources the token stream was drawn from
    reference,      \* the same source with its malformed statement removed
    ast,                        \* the Program handed to CodeGenerator::generate
    output,                     \* the lines written to the output file so far
    indent_level,               \* CodeGenerator.indent_level
    current_return_type,        \* CodeGenerator.current_return_type
    current_semantic_meaning,   \* CodeGenerator.current_semantic_meaning
    type_aliases,               \* CodeGenerator.type_aliases
    semantic_meanings,          \* CodeGenerator.semantic_meanings
    child_index,                \* position of the running `for child in &ast.children`
    call_content,       \* the backend's reply handed to parse_semantic_response
    call_meaning,       \* the meaning argument of the decode call
    call_return_type,   \* the return type argument of the decode call
    prompt_result,      \* the VibeValue the decode call gives
    decoded_via,        \* the function of the generated program that decided it
    conversion,         \* the conversion applied to prompt_result
    returned,           \* what the conversion or the extraction function gave
    input,      \* the source text handed to Parser::tokenize
    chars,      \* position in input of the character chars.next() gives next
    line,       \* tokenize's line
    column,     \* tokenize's column
    format_template,    \* format_prompt's template
    format_variables,   \* format_prompt's variables
    format_result,      \* format_prompt's result
    format_pending      \* the names the loop of format_prompt has yet to go through

parser_vars == <<tokens, current, program, parse_errors, family, reference>>

generator_vars ==
    <<ast, output, indent_level, current_return_type, current_semantic_meaning,
      type_aliases, semantic_meanings, child_index>>

format_vars == <<format_template, format_variables, format_result, format_pending>>

runtime_vars ==
    <<call_content, call_meaning, call_return_type, prompt_result, decoded_via,
      conversion, returned, format_vars>>

lexer_vars == <<input, chars, line, column>>

vars == <<pc, parser_vars, generator_vars, runtime_vars, lexer_vars>>

None == <<>>
Some(x) == <<x>>

(***************************************************************************)
(* Strings                                                                 *)
(***************************************************************************)
Char(s, i) == SubSeq(s, i, i)

\* str::contains, for a non-empty pattern
Contains(s, pattern) ==
    \E i \in 1..(Len(s) - Len(pattern) + 1) : SubSeq(s, i, i + Len(pattern) - 1) = pattern

UpperLetters == "ABCDEFGHIJKLMNOPQRSTUVWXYZ"
LowerLetters == "abcdefghijklmnopqrstuvwxyz"

IsUpper(c) == \E i \in 1..26 : Char(UpperLetters, i) = c
IsLower(c) == \E i \in 1..26 : Char(LowerLetters, i) = c

\* char::to_lowercase on the ASCII range the inputs are drawn from
LowerChar(c) ==
    IF IsUpper(c) THEN Char(LowerLetters, CHOOSE i \in 1..26 : Char(UpperLetters, i) = c)
    ELSE c

RECURSIVE to_lowercase(_)
to_lowercase(s) ==
    IF Len(s) = 0 THEN "" ELSE LowerChar(Char(s, 1)) \o to_lowercase(SubSeq(s, 2, Len(s)))

\* str::split on a set of separator characters: the pieces between
\* separators, empty pieces kept
RECURSIVE SplitOn(_, _)
SplitOn(s, seps) ==
    IF \A i \in 1..Len(s) : Char(s, i) \notin seps THEN <<s>>
    ELSE LET i == CHOOSE k \in 1..Len(s) :
                      Char(s, k) \in seps /\ \A j \in 1..(k - 1) : Char(s, j) \notin seps
         IN  <<SubSeq(s, 1, i - 1)>> \o SplitOn(SubSeq(s, i + 1, Len(s)), seps)

\* [..].join(sep)
RECURSIVE Join(_, _)
Join(pieces, sep) ==
    IF Len(pieces) = 0 THEN ""
    ELSE IF Len(pieces) = 1 THEN pieces[1]
    ELSE pieces[1] \o sep \o Join(Tail(pieces), sep)

Digits == {"0", "1", "2", "3", "4", "5", "6", "7", "8", "9"}

DigitVal(c) ==
    CASE c = "0" -> 0 [] c = "1" -> 1 [] c = "2" -> 2 [] c = "3" -> 3
      [] c = "4" -> 4 [] c = "5" -> 5 [] c = "6" -> 6 [] c = "7" -> 7
      [] c = "8" -> 8 [] c = "9" -> 9

AllDigits(s) == \A i \in 1..Len(s) : Char(s, i) \in Digits

RECURSIVE DigitsValue(_)
DigitsValue(s) ==
    IF Len(s) = 0 THEN 0
    ELSE 10 * DigitsValue(SubSeq(s, 1, Len(s) - 1)) + DigitVal(Char(s, Len(s)))

(***************************************************************************)
(* AST (utils/ast.rs)                                                      *)
(***************************************************************************)
AstNode(node_type) ==
    [node_type |-> node_type, children |-> <<>>, properties |-> <<>>]

add_child(node, child) ==
    [node EXCEPT !.children = Append(@, child)]

\* properties is an association list kept with one pair per key
RemoveKey(props, name) == SelectSeq(props, LAMBDA p : p[1] # name)

set_string(node, name, value) ==
    [node EXCEPT !.properties = Append(RemoveKey(@, name), <<name, "String", value>>)]

set_int(node, name, value) ==
    [node EXCEPT !.properties = Append(RemoveKey(@, name), <<name, "Int", value>>)]

set_float(node, name, value) ==
    [node EXCEPT !.properties = Append(RemoveKey(@, name), <<name, "Float", value>>)]

set_bool(node, name, value) ==
    [node EXCEPT !.properties = Append(RemoveKey(@, name), <<name, "Bool", value>>)]

get_string(node, name) ==
    LET hits == SelectSeq(node.properties, LAMBDA p : p[1] = name /\ p[2] = "String")
    IN  IF Len(hits) = 0 THEN None ELSE Some(hits[1][3])

(***************************************************************************)
(* Parser (compiler/parser.rs): cursor primitives                          *)
(***************************************************************************)
Token(token_type, value) == [token_type |-> token_type, value |-> value]

peek(toks, cur) == toks[cur + 1]

previous(toks, cur) == toks[cur]

is_at_end(toks, cur) == peek(toks, cur).token_type = "Eof"

\* the new cursor; the token advance returns is previous(toks, advance(toks, cur))
advance(toks, cur) == IF ~is_at_end(toks, cur) THEN cur + 1 ELSE cur

check(toks, cur, token_type) ==
    IF is_at_end(toks, cur) THEN FALSE ELSE peek(toks, cur).token_type = token_type

\* Results of the parse operations: ok is Ok/Err, cur the cursor they leave
Err(cur) == [ok |-> FALSE, cur |-> cur]
OkAt(cur) == [ok |-> TRUE, cur |-> cur]
OkValue(cur, value) == [ok |-> TRUE, cur |-> cur, value |-> value]
OkNode(cur, node) == [ok |-> TRUE, cur |-> cur, node |-> node]

\* the `?` operator: an Err returns to the caller, an Ok value goes on to rest
Try(r, rest(_)) == IF r.ok THEN rest(r) ELSE Err(r.cur)

\* match r { Ok(..) => on_ok, Err(..) => on_err }, and if/else on match_token
Match(r, on_ok(_), on_err(_)) == IF r.ok THEN on_ok(r) ELSE on_err(r)

\* an optional child: the nodes to add, none when the production was not taken
Child(r) == IF r.ok THEN [ok |-> TRUE, cur |-> r.cur, nodes |-> <<r.node>>] ELSE r
NoChild(cur) == [ok |-> TRUE, cur |-> cur, nodes |-> <<>>]

add_children(node, nodes) == [node EXCEPT !.children = @ \o nodes]

consume(toks, cur, expected) ==
    IF check(toks, cur, expected) THEN OkAt(advance(toks, cur)) ELSE Err(cur)

consume_identifier(toks, cur) ==
    IF check(toks, cur, "Identifier")
    THEN OkValue(advance(toks, cur), previous(toks, advance(toks, cur)).value)
    ELSE Err(cur)

consume_string_literal(toks, cur) ==
    IF check(toks, cur, "StringLit")
    THEN OkValue(advance(toks, cur), previous(toks, advance(toks, cur)).value)
    ELSE Err(cur)

\* match_token: the cursor it leaves, and whether it matched
match_token(toks, cur, token_type) ==
    IF check(toks, cur, token_type) THEN OkAt(advance(toks, cur)) ELSE Err(cur)

SyncKeywords == {"Class", "Fn", "Let", "Return"}

\* the loop without the stop in front of a keyword
RECURSIVE synchronize_loop_semicolon_only(_, _)
synchronize_loop_semicolon_only(toks, cur) ==
    IF is_at_end(toks, cur) THEN cur
    ELSE IF previous(toks, cur).token_type = "Semicolon" THEN cur
    ELSE synchronize_loop_semicolon_only(toks, advance(toks, cur))

RECURSIVE synchronize_loop(_, _)
synchronize_loop(toks, cur) ==
    IF is_at_end(toks, cur) THEN cur
    ELSE IF previous(toks, cur).token_type = "Semicolon" THEN cur
    ELSE IF peek(toks, cur).token_type \in SyncKeywords THEN cur
    ELSE synchronize_loop(toks, advance(toks, cur))

synchronize(toks, cur) == synchronize_loop(toks, advance(toks, cur))

(***************************************************************************)
(* Parser: types                                                           *)
(***************************************************************************)
parse_basic_type(toks, cur) ==
    Try(consume_identifier(toks, cur), LAMBDA name :
    OkNode(name.cur, set_string(AstNode("BasicType"), "type", name.value)))

RECURSIVE parse_type(_, _)
parse_meaning_type(toks, cur) ==
    Try(consume(toks, cur, "LeftAngle"), LAMBDA c1 :
    Try(parse_type(toks, c1.cur), LAMBDA base_type :
    Try(consume(toks, base_type.cur, "RightAngle"), LAMBDA c2 :
    Try(consume(toks, c2.cur, "LeftParen"), LAMBDA c3 :
    Try(consume_string_literal(toks, c3.cur), LAMBDA meaning :
    Try(consume(toks, meaning.cur, "RightParen"), LAMBDA c4 :
    OkNode(c4.cur,
           add_child(set_string(AstNode("MeaningType"), "meaning", meaning.value),
                     base_type.node))))))))

parse_type(toks, cur) ==
    Match(match_token(toks, cur, "Meaning"),
          LAMBDA m : parse_meaning_type(toks, m.cur),
          LAMBDA m : parse_basic_type(toks, m.cur))

(***************************************************************************)
(* Parser: expressions                                                     *)
(***************************************************************************)
\* token.value.parse::<i64>().unwrap_or(0) of an IntLit token: the lexer gives
\* digits only, so the parse fails only on overflow.  Literals of the inputs
\* stay within 9 digits, where the value is exact.
parse_i64_or_0(s) ==
    IF Len(s) > 0 /\ AllDigits(s) THEN DigitsValue(s) ELSE 0

\* f64 parse of a FloatLit token "ddd.ddd": kept as the decimal <<digits, scale>>
FloatLitValue(s) ==
    LET dot == CHOOSE i \in 1..Len(s) : Char(s, i) = "."
    IN  <<parse_i64_or_0(SubSeq(s, 1, dot - 1) \o SubSeq(s, dot + 1, Len(s))),
          Len(s) - dot>>

\* the match of parse_primary on the token advance() returned
primary_node(token, after) ==
    CASE token.token_type = "StringLit" ->
            OkNode(after, set_string(AstNode("StringLiteral"), "value", token.value))
      [] token.token_type = "IntLit" ->
            OkNode(after, set_int(AstNode("IntLiteral"), "value",
                                  parse_i64_or_0(token.value)))
      [] token.token_type = "FloatLit" ->
            OkNode(after, set_float(AstNode("FloatLiteral"), "value",
                                    FloatLitValue(token.value)))
      [] token.token_type = "BoolLit" ->
            OkNode(after, set_bool(AstNode("BoolLiteral"), "value", token.value = "true"))
      [] token.token_type = "Identifier" ->
            OkNode(after, set_string(AstNode("Identifier"), "name", token.value))
      [] OTHER -> Err(after)

parse_primary(toks, cur) ==
    primary_node(previous(toks, advance(toks, cur)), advance(toks, cur))

RECURSIVE parse_expression(_, _)
RECURSIVE parse_argument_list_loop(_, _, _)
parse_argument_list_loop(toks, cur, args) ==
    Try(parse_expression(toks, cur), LAMBDA arg :
    Match(match_token(toks, arg.cur, "Comma"),
          LAMBDA m : parse_argument_list_loop(toks, m.cur, add_child(args, arg.node)),
          LAMBDA m : OkNode(m.cur, add_child(args, arg.node))))

parse_argument_list(toks, cur) ==
    parse_argument_list_loop(toks, cur, AstNode("ParamList"))

\* let mut call = AstNode::new(CallExpr), named after the callee when it has a name
new_call(name) ==
    IF name # None THEN set_string(AstNode("CallExpr"), "function", name[1])
    ELSE AstNode("CallExpr")

RECURSIVE parse_call_expression_loop(_, _, _)
parse_call_expression_loop(toks, cur, expr) ==
    Match(match_token(toks, cur, "LeftParen"),
          LAMBDA m :
            Try(IF ~check(toks, m.cur, "RightParen")
                THEN parse_argument_list(toks, m.cur)
                ELSE OkNode(m.cur, AstNode("ParamList")), LAMBDA args :
            Try(consume(toks, args.cur, "RightParen"), LAMBDA c :
            parse_call_expression_loop(
                toks, c.cur,
                add_children(new_call(get_string(expr, "name")), args.node.children)))),
          LAMBDA m : OkNode(m.cur, expr))

parse_call_expression(toks, cur) ==
    Try(parse_primary(toks, cur), LAMBDA expr :
    parse_call_expression_loop(toks, expr.cur, expr.node))

parse_expression(toks, cur) == parse_call_expression(toks, cur)

(***************************************************************************)
(* Parser: statements and blocks                                           *)
(***************************************************************************)
parse_prompt_statement(toks, cur) ==
    Try(consume(toks, cur, "Prompt"), LAMBDA c1 :
    Try(consume_string_literal(toks, c1.cur), LAMBDA template :
    Try(consume(toks, template.cur, "Semicolon"), LAMBDA c2 :
    OkNode(c2.cur, set_string(AstNode("PromptBlock"), "template", template.value)))))

parse_variable_declaration(toks, cur) ==
    Try(consume(toks, cur, "Let"), LAMBDA c1 :
    Try(consume_identifier(toks, c1.cur), LAMBDA name :
    Try(Match(match_token(toks, name.cur, "Colon"),
              LAMBDA m : Child(parse_type(toks, m.cur)),
              LAMBDA m : NoChild(m.cur)), LAMBDA var_type :
    Try(consume(toks, var_type.cur, "Equals"), LAMBDA c2 :
    Try(parse_expression(toks, c2.cur), LAMBDA init_expr :
    Try(consume(toks, init_expr.cur, "Semicolon"), LAMBDA c3 :
    OkNode(c3.cur,
           add_child(add_children(set_string(AstNode("VarDecl"), "name", name.value),
                                  var_type.nodes),
                     init_expr.node))))))))

parse_return_statement(toks, cur) ==
    Try(consume(toks, cur, "Return"), LAMBDA c1 :
    Try(IF ~check(toks, c1.cur, "Semicolon")
        THEN Child(parse_expression(toks, c1.cur))
        ELSE NoChild(c1.cur), LAMBDA expr :
    Try(consume(toks, expr.cur, "Semicolon"), LAMBDA c2 :
    OkNode(c2.cur, add_children(AstNode("ReturnStmt"), expr.nodes)))))

parse_expression_statement(toks, cur) ==
    Try(parse_expression(toks, cur), LAMBDA expr :
    Try(consume(toks, expr.cur, "Semicolon"), LAMBDA c :
    OkNode(c.cur, add_child(AstNode("ExprStmt"), expr.node))))

RECURSIVE parse_block(_, _)
parse_statement(toks, cur) ==
    CASE peek(toks, cur).token_type = "Let" -> parse_variable_declaration(toks, cur)
      [] peek(toks, cur).token_type = "Return" -> parse_return_statement(toks, cur)
      [] peek(toks, cur).token_type = "Prompt" -> parse_prompt_statement(toks, cur)
      [] peek(toks, cur).token_type = "LeftBrace" -> parse_block(toks, cur)
      [] OTHER -> parse_expression_statement(toks, cur)

\* the while loop of parse_block: a failed statement is logged and skipped
RECURSIVE parse_block_loop(_, _, _)
parse_block_loop(toks, cur, block) ==
    IF ~(~check(toks, cur, "RightBrace") /\ ~is_at_end(toks, cur))
    THEN OkNode(cur, block)
    ELSE Match(parse_statement(toks, cur),
               LAMBDA stmt : parse_block_loop(toks, stmt.cur, add_child(block, stmt.node)),
               LAMBDA e : parse_block_loop(toks, synchronize(toks, e.cur), block))

parse_block(toks, cur) ==
    Try(consume(toks, cur, "LeftBrace"), LAMBDA c1 :
    Try(parse_block_loop(toks, c1.cur, AstNode("Block")), LAMBDA block :
    Try(consume(toks, block.cur, "RightBrace"), LAMBDA c2 :
    OkNode(c2.cur, block.node))))

(***************************************************************************)
(* Parser: declarations                                                    *)
(***************************************************************************)
parse_parameter(toks, cur) ==
    Try(consume_identifier(toks, cur), LAMBDA name :
    Try(consume(toks, name.cur, "Colon"), LAMBDA c :
    Try(parse_type(toks, c.cur), LAMBDA param_type :
    OkNode(param_type.cur,
           add_child(set_string(AstNode("Parameter"), "name", name.value),
                     param_type.node)))))

RECURSIVE parse_parameter_list_loop(_, _, _)
parse_parameter_list_loop(toks, cur, params) ==
    Try(parse_parameter(toks, cur), LAMBDA param :
    Match(match_token(toks, param.cur, "Comma"),
          LAMBDA m : parse_parameter_list_loop(toks, m.cur, add_child(params, param.node)),
          LAMBDA m : OkNode(m.cur, add_child(params, param.node))))

parse_parameter_list(toks, cur) ==
    parse_parameter_list_loop(toks, cur, AstNode("ParamList"))

parse_function_declaration(toks, cur) ==
    Try(consume(toks, cur, "Fn"), LAMBDA c1 :
    Try(consume_identifier(toks, c1.cur), LAMBDA name :
    Try(consume(toks, name.cur, "LeftParen"), LAMBDA c2 :
    Try(IF ~check(toks, c2.cur, "RightParen")
        THEN Child(parse_parameter_list(toks, c2.cur))
        ELSE NoChild(c2.cur), LAMBDA params :
    Try(consume(toks, params.cur, "RightParen"), LAMBDA c3 :
    Try(Match(match_token(toks, c3.cur, "Arrow"),
              LAMBDA m : Child(parse_type(toks, m.cur)),
              LAMBDA m : NoChild(m.cur)), LAMBDA return_type :
    Try(parse_block(toks, return_type.cur), LAMBDA body :
    OkNode(body.cur,
           add_child(add_children(add_children(
                         set_string(AstNode("FunctionDecl"), "name", name.value),
                         params.nodes), return_type.nodes),
                     add_children(AstNode("FunctionBody"), body.node.children))))))))))

parse_type_declaration(toks, cur) ==
    Try(consume(toks, cur, "Type"), LAMBDA c1 :
    Try(consume_identifier(toks, c1.cur), LAMBDA name :
    Try(consume(toks, name.cur, "Equals"), LAMBDA c2 :
    Try(parse_type(toks, c2.cur), LAMBDA type_def :
    Try(consume(toks, type_def.cur, "Semicolon"), LAMBDA c3 :
    OkNode(c3.cur,
           add_child(set_string(AstNode("TypeDecl"), "name", name.value),
                     type_def.node)))))))

parse_member_variable(toks, cur) ==
    Try(consume_identifier(toks, cur), LAMBDA name :
    Try(consume(toks, name.cur, "Colon"), LAMBDA c1 :
    Try(parse_type(toks, c1.cur), LAMBDA var_type :
    Try(consume(toks, var_type.cur, "Semicolon"), LAMBDA c2 :
    OkNode(c2.cur,
           add_child(set_string(AstNode("MemberVar"), "name", name.value),
                     var_type.node))))))

parse_class_member(toks, cur) ==
    CASE peek(toks, cur).token_type = "Fn" -> parse_function_declaration(toks, cur)
      [] peek(toks, cur).token_type = "Identifier" -> parse_member_variable(toks, cur)
      [] OTHER -> Err(cur)

\* the while loop of parse_class_declaration
RECURSIVE parse_class_declaration_loop(_, _, _)
parse_class_declaration_loop(toks, cur, class) ==
    IF ~(~check(toks, cur, "RightBrace") /\ ~is_at_end(toks, cur))
    THEN OkNode(cur, class)
    ELSE Match(parse_class_member(toks, cur),
               LAMBDA member :
                 parse_class_declaration_loop(toks, member.cur,
                                              add_child(class, member.node)),
               LAMBDA e :
                 parse_class_declaration_loop(toks, synchronize(toks, e.cur), class))

parse_class_declaration(toks, cur) ==
    Try(consume(toks, cur, "Class"), LAMBDA c1 :
    Try(consume_identifier(toks, c1.cur), LAMBDA name :
    Try(consume(toks, name.cur, "LeftBrace"), LAMBDA c2 :
    Try(parse_class_declaration_loop(
            toks, c2.cur, set_string(AstNode("ClassDecl"), "name", name.value)),
        LAMBDA class :
    Try(consume(toks, class.cur, "RightBrace"), LAMBDA c3 :
    OkNode(c3.cur, class.node))))))

parse_import_declaration(toks, cur) ==
    Try(consume(toks, cur, "Import"), LAMBDA c1 :
    Try(consume_string_literal(toks, c1.cur), LAMBDA path :
    Try(consume(toks, path.cur, "Semicolon"), LAMBDA c2 :
    OkNode(c2.cur, set_string(AstNode("Import"), "path", path.value)))))

parse_declaration(toks, cur) ==
    CASE peek(toks, cur).token_type = "Fn" -> parse_function_declaration(toks, cur)
      [] peek(toks, cur).token_type = "Type" -> parse_type_declaration(toks, cur)
      [] peek(toks, cur).token_type = "Class" -> parse_class_declaration(toks, cur)
      [] peek(toks, cur).token_type = "Import" -> parse_import_declaration(toks, cur)
      [] OTHER -> Err(cur)

\* parse_program run to its end on a token stream: the Program node
RECURSIVE parse_program_loop(_, _, _)
parse_program_loop(toks, cur, prog) ==
    IF is_at_end(toks, cur) THEN prog
    ELSE Match(parse_declaration(toks, cur),
               LAMBDA decl : parse_program_loop(toks, decl.cur, add_child(prog, decl.node)),
               LAMBDA e : parse_program_loop(toks, synchronize(toks, e.cur), prog))

parse_string_tokens(toks) == parse_program_loop(toks, 0, AstNode("Program"))

(***************************************************************************)
(* Sources handed to the parser, as the token streams the lexer gives      *)
(***************************************************************************)
MaxRawTokens == 3
MaxGoodStmts == 2
MaxDecls == 2

Kw(token_type) ==
    Token(token_type,
          CASE token_type = "Fn" -> "fn" [] token_type = "Type" -> "type"
            [] token_type = "Class" -> "class" [] token_type = "Import" -> "import"
            [] token_type = "Let" -> "let" [] token_type = "Return" -> "return"
            [] token_type = "Prompt" -> "prompt" [] token_type = "Meaning" -> "Meaning"
            [] token_type = "LeftParen" -> "(" [] token_type = "RightParen" -> ")"
            [] token_type = "LeftBrace" -> "{" [] token_type = "RightBrace" -> "}"
            [] token_type = "LeftAngle" -> "<" [] token_type = "RightAngle" -> ">"
            [] token_type = "Semicolon" -> ";" [] token_type = "Colon" -> ":"
            [] token_type = "Equals" -> "=" [] token_type = "Comma" -> ","
            [] token_type = "Arrow" -> "->" [] token_type = "Eof" -> "")

Id(name) == Token("Identifier", name)
Str(text) == Token("StringLit", text)
Int_(text) == Token("IntLit", text)

EofToken == Kw("Eof")

\* one token of every kind the lexer produces
RawTokens ==
    {Kw(t) : t \in {"Fn", "Type", "Class", "Import", "Let", "Return", "Prompt",
                    "Meaning", "LeftParen", "RightParen", "LeftBrace", "RightBrace",
                    "LeftAngle", "RightAngle", "Semicolon", "Colon", "Equals",
                    "Comma", "Arrow"}}
    \cup {Id("x"), Str("s"), Int_("1"), Token("FloatLit", "1.5"), Token("BoolLit", "true")}

RawStreams == UNION {[1..n -> RawTokens] : n \in 0..MaxRawTokens}

\* well-formed statements
GoodStmts ==
    { <<Kw("Let"), Id("x"), Kw("Equals"), Int_("5"), Kw("Semicolon")>>,
      <<Kw("Return"), Id("x"), Kw("Semicolon")>>,
      <<Kw("Prompt"), Str("What is {x}?"), Kw("Semicolon")>>,
      <<Id("g"), Kw("LeftParen"), Id("x"), Kw("RightParen"), Kw("Semicolon")>> }

\* malformed statements, with the token at which the parser detects the failure
BadStmts ==
    { <<Kw("Let"), Id("y"), Kw("Equals"), Kw("Semicolon")>>,      \* let y = ;
      <<Kw("Let"), Kw("Equals"), Int_("5"), Kw("Semicolon")>>,    \* let = 5;
      <<Kw("Let"), Id("y"), Kw("Semicolon")>>,                    \* let y;
      <<Kw("Prompt"), Kw("Semicolon")>>,                          \* prompt ;
      <<Id("y"), Id("z"), Kw("Semicolon")>>,                      \* y z;
      <<Kw("Return"), Kw("Equals"), Kw("Semicolon")>>,            \* return = ;
      <<Kw("Let"), Id("y"), Kw("Equals"), Int_("5")>> }           \* let y = 5

RECURSIVE Flatten(_)
Flatten(seqs) == IF Len(seqs) = 0 THEN <<>> ELSE Head(seqs) \o Flatten(Tail(seqs))

StmtLists(n) == UNION {[1..k -> GoodStmts] : k \in 0..n}

FnHead(name) == <<Kw("Fn"), Id(name), Kw("LeftParen"), Kw("RightParen"), Kw("LeftBrace")>>

\* well-formed declarations
DeclFnG ==
    FnHead("g") \o <<Kw("Prompt"), Str("q"), Kw("Semicolon"), Kw("RightBrace")>>

DeclTypeBasic == <<Kw("Type"), Id("Count"), Kw("Equals"), Id("Int"), Kw("Semicolon")>>

DeclTypeMeaning ==
    <<Kw("Type"), Id("Weather"), Kw("Equals"), Kw("Meaning"), Kw("LeftAngle"),
      Id("String"), Kw("RightAngle"), Kw("LeftParen"), Str("weather description"),
      Kw("RightParen"), Kw("Semicolon")>>

DeclFnWeather ==
    <<Kw("Fn"), Id("get_weather"), Kw("LeftParen"), Id("city"), Kw("Colon"),
      Id("String"), Kw("RightParen"), Kw("Arrow"), Id("Weather"), Kw("LeftBrace"),
      Kw("Prompt"), Str("What is the weather in {city}?"), Kw("Semicolon"),
      Kw("RightBrace")>>

DeclImport == <<Kw("Import"), Str("m"), Kw("Semicolon")>>

DeclClass ==
    <<Kw("Class"), Id("C"), Kw("LeftBrace"), Id("n"), Kw("Colon"), Id("Int"),
      Kw("Semicolon")>> \o DeclFnG \o <<Kw("RightBrace")>>

GoodDecls == {DeclFnG, DeclTypeBasic, DeclTypeMeaning, DeclFnWeather, DeclImport, DeclClass}

\* declarations that follow the function with the malformed statement
Following == {<<>>, DeclFnG, DeclTypeBasic \o DeclFnG}

\* the good statements before and after the malformed one
StmtSplits ==
    { p \in StmtLists(MaxGoodStmts) \X StmtLists(MaxGoodStmts) :
        Len(p[1]) + Len(p[2]) <= MaxGoodStmts }

\* fn f() { before bad after } following, and the same without bad
OneBadSources ==
    { [tokens |-> FnHead("f") \o Flatten(p[1]) \o bad \o Flatten(p[2])
                    \o <<Kw("RightBrace")>> \o following \o <<EofToken>>,
       reference |-> FnHead("f") \o Flatten(p[1]) \o Flatten(p[2])
                    \o <<Kw("RightBrace")>> \o following \o <<EofToken>>] :
        p \in StmtSplits, bad \in BadStmts, following \in Following }

\* fn get_temperature(city: String) -> Meaning<Int>("temperature in Celsius") { prompt ..; }
DeclFnTemperature ==
    <<Kw("Fn"), Id("get_temperature"), Kw("LeftParen"), Id("city"), Kw("Colon"),
      Id("String"), Kw("RightParen"), Kw("Arrow"), Kw("Meaning"), Kw("LeftAngle"),
      Id("Int"), Kw("RightAngle"), Kw("LeftParen"), Str("temperature in Celsius"),
      Kw("RightParen"), Kw("LeftBrace"),
      Kw("Prompt"), Str("What is the temperature in {city}?"), Kw("Semicolon"),
      Kw("RightBrace")>>

\* one type declaration followed by two function declarations
WorkflowProgram == DeclTypeMeaning \o DeclFnWeather \o DeclFnTemperature \o <<EofToken>>

ValidPrograms ==
    { Flatten(decls) \o <<EofToken>> : decls \in UNION {[1..k -> GoodDecls] : k \in 0..MaxDecls} }
    \cup {WorkflowProgram}

\* a valid program with one token dropped or replaced by another
DamageBase == DeclTypeMeaning \o DeclFnWeather \o DeclClass

Damaged ==
    { SubSeq(DamageBase, 1, i - 1) \o SubSeq(DamageBase, i + 1, Len(DamageBase))
        \o <<EofToken>> : i \in 1..Len(DamageBase) }
    \cup
    { SubSeq(DamageBase, 1, i - 1) \o <<t>> \o SubSeq(DamageBase, i + 1, Len(DamageBase))
        \o <<EofToken>> : i \in 1..Len(DamageBase), t \in RawTokens }

\* no generated program runs
\* format_prompt is not running
FormatUnused ==
    /\ format_template = ""
    /\ format_variables = <<>>
    /\ format_result = ""
    /\ format_pending = {}

RuntimeUnused ==
    /\ FormatUnused
    /\ call_content = ""
    /\ call_meaning = None
    /\ call_return_type = ""
    /\ prompt_result = "none"
    /\ decoded_via = ""
    /\ conversion = ""
    /\ returned = "none"

\* no text is being tokenized
LexerUnused ==
    /\ input = ""
    /\ chars = 0
    /\ line = 0
    /\ column = 0

\* the generator's fields while no generation runs: CodeGenerator::new()
GeneratorUnused ==
    /\ ast = AstNode("Program")
    /\ output = <<>>
    /\ indent_level = 0
    /\ current_return_type = None
    /\ current_semantic_meaning = None
    /\ type_aliases = <<>>
    /\ semantic_meanings = <<>>
    /\ child_index = 0

(***************************************************************************)
(* Parser::parse as a state machine: one step per round of the             *)
(* parse_program loop                                                      *)
(***************************************************************************)
InitParse ==
    /\ pc = "parse_program"
    /\ LexerUnused
    /\ GeneratorUnused
    /\ RuntimeUnused
    /\ current = 0
    /\ program = AstNode("Program")
    /\ parse_errors = 0
    /\ \/ /\ family = "raw"
          /\ \E raw \in RawStreams : tokens = raw \o <<EofToken>>
          /\ reference = <<>>
       \/ /\ family = "one_bad"
          /\ \E i \in OneBadSources : tokens = i.tokens /\ reference = i.reference
       \/ /\ family = "valid"
          /\ tokens \in ValidPrograms
          /\ reference = tokens
       \/ /\ family = "damaged"
          /\ tokens \in Damaged
          /\ reference = DamageBase \o <<EofToken>>

\* the declaration put in front of the children instead of behind them
DeclarationOk_Prepend(decl) ==
    /\ decl.ok
    /\ program' = [program EXCEPT !.children = <<decl.node>> \o @]
    /\ current' = decl.cur

\* Ok(decl) => program.add_child(decl)
DeclarationOk(decl) ==
    /\ decl.ok
    /\ program' = add_child(program, decl.node)
    /\ current' = decl.cur

ParseDeclarationOk ==
    /\ pc = "parse_program"
    /\ ~is_at_end(tokens, current)
    /\ DeclarationOk(parse_declaration(tokens, current))
    /\ UNCHANGED <<pc, tokens, parse_errors, family, reference, generator_vars, runtime_vars, lexer_vars>>

\* the error logged and the loop gone round again without synchronize
DeclarationErr_NoSynchronize(decl) ==
    /\ ~decl.ok
    /\ parse_errors' = parse_errors + 1
    /\ current' = decl.cur
    /\ pc' = pc

\* the error propagated with `?` instead of being logged and skipped
DeclarationErr_Propagate(decl) ==
    /\ ~decl.ok
    /\ pc' = "failed"
    /\ UNCHANGED <<current, parse_errors>>

\* Err(e) => { eprintln!(..); self.synchronize(); }
DeclarationErr(decl) ==
    /\ ~decl.ok
    /\ parse_errors' = parse_errors + 1
    /\ current' = synchronize(tokens, decl.cur)
    /\ pc' = pc

ParseDeclarationErr ==
    /\ pc = "parse_program"
    /\ ~is_at_end(tokens, current)
    /\ DeclarationErr(parse_declaration(tokens, current))
    /\ UNCHANGED <<tokens, program, family, reference, generator_vars, runtime_vars, lexer_vars>>

\* the loop is left at end of input: Ok(program)
ParseProgramReturn ==
    /\ pc = "parse_program"
    /\ is_at_end(tokens, current)
    /\ pc' = "parsed"
    /\ UNCHANGED <<parser_vars, generator_vars, runtime_vars, lexer_vars>>

NextParse == ParseDeclarationOk \/ ParseDeclarationErr \/ ParseProgramReturn

SpecParse == InitParse /\ [][NextParse]_vars

TypeOKParse == pc \in {"parse_program", "parsed"} /\ current \in 0..(Len(tokens) - 1)

(***************************************************************************)
(* C1: a function body with exactly one malformed statement is parsed to   *)
(* the Program of the same source without that statement: the function     *)
(* keeps all its other statements and every later declaration follows it.  *)
(* Violated: fn f() { let y = ; } parses to a Program without children.    *)
(***************************************************************************)
C1_RecoveryKeepsFunction ==
    (pc = "parsed" /\ family = "one_bad") => program = parse_string_tokens(reference)

(***************************************************************************)
(* C2: parsing never aborts on a syntax error: parse_program only ever     *)
(* returns Ok with a Program root whose top-level children are             *)
(* FunctionDecl, TypeDecl, ClassDecl or Import nodes; a declaration that   *)
(* fails is logged and skipped.                                            *)
(***************************************************************************)
DeclarationKinds == {"FunctionDecl", "TypeDecl", "ClassDecl", "Import"}

C2_ParseNeverAborts ==
    /\ pc \in {"parse_program", "parsed"}
    /\ program.node_type = "Program"
    /\ \A i \in 1..Len(program.children) :
           program.children[i].node_type \in DeclarationKinds

\* a damaged program parsed to the end: a failure was logged, and the
\* declarations around it are in the tree
C2_Witness ==
    /\ pc = "parsed"
    /\ family = "damaged"
    /\ parse_errors > 0
    /\ Len(program.children) >= 2

(***************************************************************************)
(* Code generator (compiler/codegen.rs): resolver tables                   *)
(***************************************************************************)
\* HashMap::insert: a later value for the same key replaces the earlier one
Insert(map, key, value) ==
    [k \in (DOMAIN map) \cup {key} |-> IF k = key THEN value ELSE map[k]]

\* HashMap::get
Get(map, key) == IF key \in DOMAIN map THEN Some(map[key]) ELSE None

map_to_rust_type(vibe_type) ==
    CASE vibe_type = "Int" -> "i32"
      [] vibe_type = "Float" -> "f64"
      [] vibe_type = "String" -> "String"
      [] vibe_type = "Bool" -> "bool"
      [] vibe_type = "void" -> "()"
      [] OTHER -> vibe_type

RECURSIVE extract_type_name(_)
extract_type_name(node) ==
    CASE node.node_type = "BasicType" -> get_string(node, "type")
      [] node.node_type = "MeaningType" ->
            IF node.children # <<>> THEN extract_type_name(node.children[1]) ELSE None
      [] OTHER -> None

\* Some(type_name) => map_to_rust_type(type_name), None => "()"
rust_type_or_unit(type_name) ==
    IF type_name # None THEN map_to_rust_type(type_name[1]) ELSE "()"

determine_base_type(type_node) == rust_type_or_unit(extract_type_name(type_node))

resolve_type_alias(aliases, type_name) ==
    IF type_name \in DOMAIN aliases THEN aliases[type_name] ELSE type_name

\* char::is_alphanumeric on the ASCII range the inputs are drawn from
is_alphanumeric(c) == IsUpper(c) \/ IsLower(c) \/ c \in Digits

RECURSIVE non_alphanumeric_to_underscore(_)
non_alphanumeric_to_underscore(s) ==
    IF Len(s) = 0 THEN ""
    ELSE (IF is_alphanumeric(Char(s, 1)) THEN Char(s, 1) ELSE "_")
         \o non_alphanumeric_to_underscore(SubSeq(s, 2, Len(s)))

StopWords == {"a", "an", "the", "of", "in"}

normalize_meaning_to_function_name(meaning) ==
    Join(SelectSeq(SplitOn(non_alphanumeric_to_underscore(to_lowercase(meaning)), {"_"}),
                   LAMBDA w : w # "" /\ w \notin StopWords),
         "_")

\* the body of the loop of collect_semantic_meanings for one child
collect_semantic_meaning(meanings, child) ==
    IF /\ child.node_type = "TypeDecl"
       /\ get_string(child, "name") # None
       /\ child.children # <<>>
       /\ child.children[1].node_type = "MeaningType"
       /\ get_string(child.children[1], "meaning") # None
    THEN Insert(meanings, get_string(child.children[1], "meaning")[1],
                <<determine_base_type(child.children[1]),
                  normalize_meaning_to_function_name(
                      get_string(child.children[1], "meaning")[1])>>)
    ELSE meanings

RECURSIVE collect_semantic_meanings_from(_, _, _)
collect_semantic_meanings_from(meanings, children, i) ==
    IF i > Len(children) THEN meanings
    ELSE collect_semantic_meanings_from(collect_semantic_meaning(meanings, children[i]),
                                        children, i + 1)

collect_semantic_meanings(meanings, node) ==
    collect_semantic_meanings_from(meanings, node.children, 1)

determine_return_type_of(child) ==
    CASE child.node_type = "BasicType" /\ get_string(child, "type") # None ->
            Some(map_to_rust_type(get_string(child, "type")[1]))
      [] /\ child.node_type = "MeaningType"
         /\ child.children # <<>>
         /\ get_string(child.children[1], "type") # None ->
            Some(map_to_rust_type(get_string(child.children[1], "type")[1]))
      [] OTHER -> None

RECURSIVE determine_return_type_from(_, _)
determine_return_type_from(children, i) ==
    IF i > Len(children) THEN "String"
    ELSE IF determine_return_type_of(children[i]) # None
         THEN determine_return_type_of(children[i])[1]
         ELSE determine_return_type_from(children, i + 1)

determine_return_type(func) == determine_return_type_from(func.children, 1)

RECURSIVE extract_semantic_meaning_from(_, _)
extract_semantic_meaning_from(children, i) ==
    IF i > Len(children) THEN None
    ELSE IF children[i].node_type = "MeaningType" THEN get_string(children[i], "meaning")
    ELSE extract_semantic_meaning_from(children, i + 1)

extract_semantic_meaning_from_function(func) ==
    extract_semantic_meaning_from(func.children, 1)

\* for child in &node.children: the first type name found, mapped; else "()"
RECURSIVE first_type_name(_, _)
first_type_name(children, i) ==
    IF i > Len(children) THEN None
    ELSE IF extract_type_name(children[i]) # None THEN extract_type_name(children[i])
    ELSE first_type_name(children, i + 1)

determine_parameter_type(param) == rust_type_or_unit(first_type_name(param.children, 1))

RECURSIVE first_literal_type(_, _)
first_literal_type(children, i) ==
    IF i > Len(children) THEN "()"
    ELSE CASE children[i].node_type = "StringLiteral" -> "String"
           [] children[i].node_type = "IntLiteral" -> "i32"
           [] children[i].node_type = "FloatLiteral" -> "f64"
           [] children[i].node_type = "BoolLiteral" -> "bool"
           [] OTHER -> first_literal_type(children, i + 1)

infer_variable_type(var) ==
    IF first_type_name(var.children, 1) # None
    THEN map_to_rust_type(first_type_name(var.children, 1)[1])
    ELSE first_literal_type(var.children, 1)

\* the scan of extract_template_variables from character i on
RECURSIVE extract_template_variables_from(_, _)
extract_template_variables_from(template, i) ==
    IF i > Len(template) THEN <<>>
    ELSE IF Char(template, i) # "{" THEN extract_template_variables_from(template, i + 1)
    ELSE IF \A j \in (i + 1)..Len(template) : Char(template, j) # "}" THEN <<>>
    ELSE LET close == CHOOSE j \in (i + 1)..Len(template) :
                          /\ Char(template, j) = "}"
                          /\ \A k \in (i + 1)..(j - 1) : Char(template, k) # "}"
         IN  (IF close > i + 1 THEN <<SubSeq(template, i + 1, close - 1)>> ELSE <<>>)
             \o extract_template_variables_from(template, close + 1)

\* each variable once: a later occurrence of a name is dropped
RECURSIVE without_duplicates(_)
without_duplicates(names) ==
    IF names = <<>> THEN <<>>
    ELSE IF \E i \in 1..(Len(names) - 1) : names[i] = names[Len(names)]
    THEN without_duplicates(SubSeq(names, 1, Len(names) - 1))
    ELSE Append(without_duplicates(SubSeq(names, 1, Len(names) - 1)), names[Len(names)])

extract_template_variables_unique(template) ==
    without_duplicates(extract_template_variables_from(template, 1))

extract_template_variables(template) == extract_template_variables_from(template, 1)

(***************************************************************************)
(* Code generator: the text written for expressions                        *)
(***************************************************************************)
get_int(node, name) ==
    IF \E i \in 1..Len(node.properties) :
           node.properties[i][1] = name /\ node.properties[i][2] = "Int"
    THEN Some((CHOOSE p \in {node.properties[i] : i \in 1..Len(node.properties)} :
                   p[1] = name)[3])
    ELSE None

get_float(node, name) ==
    IF \E i \in 1..Len(node.properties) :
           node.properties[i][1] = name /\ node.properties[i][2] = "Float"
    THEN Some((CHOOSE p \in {node.properties[i] : i \in 1..Len(node.properties)} :
                   p[1] = name)[3])
    ELSE None

get_bool(node, name) ==
    IF \E i \in 1..Len(node.properties) :
           node.properties[i][1] = name /\ node.properties[i][2] = "Bool"
    THEN Some((CHOOSE p \in {node.properties[i] : i \in 1..Len(node.properties)} :
                   p[1] = name)[3])
    ELSE None

unwrap_or(option, default) == IF option # None THEN option[1] ELSE default

RECURSIVE Pow10(_)
Pow10(k) == IF k = 0 THEN 1 ELSE 10 * Pow10(k - 1)

DigitChar(d) == Char("0123456789", d + 1)

RECURSIVE NatToString(_)
NatToString(n) ==
    IF n < 10 THEN DigitChar(n) ELSE NatToString(n \div 10) \o DigitChar(n % 10)

\* Display of an integer
IntToString(n) == IF n < 0 THEN "-" \o NatToString(-n) ELSE NatToString(n)

\* n written with exactly `width` digits, zero-padded on the left
RECURSIVE PadDigits(_, _)
PadDigits(n, width) ==
    IF width = 0 THEN "" ELSE PadDigits(n \div 10, width - 1) \o DigitChar(n % 10)

\* A finite f64 is kept as the decimal <<m, scale>> = m / 10^scale; Decimal
\* drops the trailing zeros of the fraction.
RECURSIVE Decimal(_, _)
Decimal(m, scale) ==
    IF m = 0 THEN <<0, 0>>
    ELSE IF scale > 0 /\ m % 10 = 0 THEN Decimal(m \div 10, scale - 1)
    ELSE <<m, scale>>

\* Display of a non-negative decimal already reduced by Decimal: no
\* fraction part is printed for a whole number ("2", not "2.0")
DecimalToString(d) ==
    IF d[2] <= 0 THEN NatToString(d[1] * Pow10(-d[2]))
    ELSE NatToString(d[1] \div Pow10(d[2])) \o "." \o PadDigits(d[1] % Pow10(d[2]), d[2])

RECURSIVE generate_expression(_)
RECURSIVE generate_arguments(_, _)
generate_arguments(args, i) ==
    IF i > Len(args) THEN ""
    ELSE (IF i > 1 THEN ", " ELSE "") \o generate_expression(args[i])
         \o generate_arguments(args, i + 1)

generate_expression(expr) ==
    CASE expr.node_type = "StringLiteral" ->
            "\"" \o unwrap_or(get_string(expr, "value"), "") \o "\".to_string()"
      [] expr.node_type = "IntLiteral" -> IntToString(unwrap_or(get_int(expr, "value"), 0))
      [] expr.node_type = "FloatLiteral" ->
            DecimalToString(Decimal(unwrap_or(get_float(expr, "value"), <<0, 0>>)[1],
                                    unwrap_or(get_float(expr, "value"), <<0, 0>>)[2]))
      [] expr.node_type = "BoolLiteral" ->
            IF unwrap_or(get_bool(expr, "value"), FALSE) THEN "true" ELSE "false"
      [] expr.node_type = "Identifier" ->
            unwrap_or(get_string(expr, "name"), "unknown_identifier")
      [] expr.node_type = "CallExpr" ->
            unwrap_or(get_string(expr, "function"), "unknown_function") \o "("
            \o generate_arguments(expr.children, 1) \o ")"
      [] OTHER -> "/* Unsupported expression */"

(***************************************************************************)
(* Code generator: statements.  A written line is kept as its indentation, *)
(* the fixed text it starts with, and the values interpolated into it.     *)
(***************************************************************************)
Line(indent, text, args) == [indent |-> indent, text |-> text, args |-> args]

\* the context a statement is generated in: the generator's fields
Context(return_type, meaning, aliases) ==
    [return_type |-> return_type, meaning |-> meaning, aliases |-> aliases]

determine_return_type_from_context(ctx) == unwrap_or(ctx.return_type, "String")

\* the arm of generate_type_conversion's match the resolved type selects
conversion_arm(resolved_type) ==
    IF resolved_type \in {"i32", "f64", "bool"} THEN resolved_type ELSE "_"

generate_type_conversion(indent, ctx, return_type) ==
    <<Line(indent, "return match prompt_result {",
           <<conversion_arm(resolve_type_alias(ctx.aliases, return_type))>>),
      Line(indent, "};", <<>>)>>

insert_variable_lines(indent, variables) ==
    [i \in 1..Len(variables) |-> Line(indent, "variables.insert(", <<variables[i]>>)]

format_prompt_lines(indent, variables) ==
    IF variables # <<>>
    THEN <<Line(indent, "let mut variables = HashMap::new();", <<>>)>>
         \o insert_variable_lines(indent, variables)
         \o <<Line(indent, "let formatted_prompt = format_prompt(prompt_template, &variables);",
                   <<>>)>>
    ELSE <<Line(indent, "let formatted_prompt = prompt_template.to_string();", <<>>)>>

\* the decode call: its arguments are the meaning and the return type
ExecutePrompt == "let prompt_result = vibe_execute_prompt(&formatted_prompt,"

\* the template is always set on a PromptBlock the parser built
generate_prompt_block(prompt, indent, ctx) ==
    <<Line(indent, "{", <<>>),
      Line(indent + 1, "let prompt_template =", <<get_string(prompt, "template")[1]>>)>>
    \o format_prompt_lines(indent + 1,
                           extract_template_variables(get_string(prompt, "template")[1]))
    \o <<Line(indent + 1, ExecutePrompt,
              <<ctx.meaning, determine_return_type_from_context(ctx)>>)>>
    \o generate_type_conversion(indent + 1, ctx, determine_return_type_from_context(ctx))
    \o <<Line(indent, "}", <<>>)>>

\* the first child that is not a type: the initialization expression
RECURSIVE initialization_expression(_, _)
initialization_expression(children, i) ==
    IF i > Len(children) THEN ""
    ELSE IF children[i].node_type \notin {"BasicType", "MeaningType"}
         THEN generate_expression(children[i])
         ELSE initialization_expression(children, i + 1)

generate_variable_declaration(var, indent) ==
    <<Line(indent, "let",
           <<get_string(var, "name")[1], infer_variable_type(var),
             initialization_expression(var.children, 1)>>)>>

generate_return_statement(ret, indent) ==
    <<Line(indent, "return",
           IF ret.children # <<>> THEN <<generate_expression(ret.children[1])>> ELSE <<>>)>>

generate_expression_statement(expr_stmt, indent) ==
    <<Line(indent, ";",
           IF expr_stmt.children # <<>>
           THEN <<generate_expression(expr_stmt.children[1])>> ELSE <<>>)>>

RECURSIVE generate_statement(_, _, _)
RECURSIVE generate_statements(_, _, _, _)
generate_statements(stmts, i, indent, ctx) ==
    IF i > Len(stmts) THEN <<>>
    ELSE generate_statement(stmts[i], indent, ctx)
         \o generate_statements(stmts, i + 1, indent, ctx)

generate_block(block, indent, ctx) ==
    <<Line(indent, "{", <<>>)>>
    \o generate_statements(block.children, 1, indent + 1, ctx)
    \o <<Line(indent, "}", <<>>)>>

generate_statement(stmt, indent, ctx) ==
    CASE stmt.node_type = "VarDecl" -> generate_variable_declaration(stmt, indent)
      [] stmt.node_type = "ReturnStmt" -> generate_return_statement(stmt, indent)
      [] stmt.node_type = "PromptBlock" -> generate_prompt_block(stmt, indent, ctx)
      [] stmt.node_type = "ExprStmt" -> generate_expression_statement(stmt, indent)
      [] stmt.node_type = "Block" -> generate_block(stmt, indent, ctx)
      [] OTHER -> <<Line(indent, "// Unsupported statement type", <<>>)>>

\* the statements of the first FunctionBody child
RECURSIVE generate_function_body_from(_, _, _, _)
generate_function_body_from(children, i, indent, ctx) ==
    IF i > Len(children) THEN <<>>
    ELSE IF children[i].node_type = "FunctionBody"
         THEN generate_statements(children[i].children, 1, indent, ctx)
         ELSE generate_function_body_from(children, i + 1, indent, ctx)

generate_function_body(func, indent, ctx) ==
    generate_function_body_from(func.children, 1, indent, ctx)

(***************************************************************************)
(* Code generator: declarations                                            *)
(***************************************************************************)
parameter_text(param) ==
    IF param.node_type = "Parameter" /\ get_string(param, "name") # None
    THEN <<get_string(param, "name")[1] \o ": " \o determine_parameter_type(param)>>
    ELSE <<>>

RECURSIVE parameter_texts(_, _)
parameter_texts(params, i) ==
    IF i > Len(params) THEN <<>>
    ELSE parameter_text(params[i]) \o parameter_texts(params, i + 1)

\* the parameters of the first ParamList child
RECURSIVE collect_parameters_from(_, _)
collect_parameters_from(children, i) ==
    IF i > Len(children) THEN <<>>
    ELSE IF children[i].node_type = "ParamList"
         THEN parameter_texts(children[i].children, 1)
         ELSE collect_parameters_from(children, i + 1)

collect_parameters(func) == collect_parameters_from(func.children, 1)

\* the statements of the first FunctionBody child
RECURSIVE body_statements_from(_, _)
body_statements_from(children, i) ==
    IF i > Len(children) THEN <<>>
    ELSE IF children[i].node_type = "FunctionBody" THEN children[i].children
    ELSE body_statements_from(children, i + 1)

body_statements(func) == body_statements_from(func.children, 1)

\* the first statement from i on that is a prompt block without a template,
\* 0 if there is none
RECURSIVE first_untemplated(_, _)
first_untemplated(stmts, i) ==
    IF i > Len(stmts) THEN 0
    ELSE IF stmts[i].node_type = "PromptBlock" /\ get_string(stmts[i], "template") = None
    THEN i
    ELSE first_untemplated(stmts, i + 1)

\* the error generate_function returns, if any
function_error(func) ==
    IF get_string(func, "name") = None THEN Some("Function missing name")
    ELSE IF first_untemplated(body_statements(func), 1) # 0
    THEN Some("Prompt template not found")
    ELSE None

\* what generate_function has written when generate_prompt_block returns its
\* error: the signature and the statements before the prompt block
function_lines_before_error(func, aliases) ==
    <<Line(0, "pub fn",
           <<get_string(func, "name")[1], collect_parameters(func),
             determine_return_type(func)>>)>>
    \o generate_statements(
           SubSeq(body_statements(func), 1, first_untemplated(body_statements(func), 1) - 1),
           1, 1,
           Context(Some(determine_return_type(func)),
                   extract_semantic_meaning_from_function(func), aliases))

\* generate_function with the context it stores for the prompt block
generate_function(func, aliases) ==
    <<Line(0, "pub fn",
           <<get_string(func, "name")[1], collect_parameters(func),
             determine_return_type(func)>>)>>
    \o generate_function_body(func, 1,
                              Context(Some(determine_return_type(func)),
                                      extract_semantic_meaning_from_function(func),
                                      aliases))
    \o <<Line(0, "}", <<>>), Line(0, "", <<>>)>>

\* generate_method stores no context: the body is generated in the one left
\* in the generator's fields
generate_method(func, indent, ctx) ==
    <<Line(indent, "pub fn",
           <<get_string(func, "name")[1], <<"&self">> \o collect_parameters(func),
             determine_return_type(func)>>)>>
    \o generate_function_body(func, indent + 1, ctx)
    \o <<Line(indent, "}", <<>>), Line(0, "", <<>>)>>

struct_field(child, indent) ==
    IF /\ child.node_type = "MemberVar"
       /\ get_string(child, "name") # None
       /\ child.children # <<>>
    THEN <<Line(indent, "pub",
                <<get_string(child, "name")[1], determine_base_type(child.children[1])>>)>>
    ELSE <<>>

RECURSIVE generate_struct_fields(_, _, _)
generate_struct_fields(children, i, indent) ==
    IF i > Len(children) THEN <<>>
    ELSE struct_field(children[i], indent) \o generate_struct_fields(children, i + 1, indent)

RECURSIVE generate_methods(_, _, _, _)
generate_methods(children, i, indent, ctx) ==
    IF i > Len(children) THEN <<>>
    ELSE (IF children[i].node_type = "FunctionDecl"
          THEN generate_method(children[i], indent, ctx) ELSE <<>>)
         \o generate_methods(children, i + 1, indent, ctx)

generate_impl_block(class, ctx) ==
    <<Line(0, "impl", <<get_string(class, "name")[1]>>)>>
    \o generate_methods(class.children, 1, 1, ctx)
    \o <<Line(0, "}", <<>>), Line(0, "", <<>>)>>

generate_struct_declaration(class, ctx) ==
    <<Line(0, "#[derive(Debug, Clone)]", <<>>),
      Line(0, "pub struct", <<get_string(class, "name")[1]>>)>>
    \o generate_struct_fields(class.children, 1, 1)
    \o <<Line(0, "}", <<>>), Line(0, "", <<>>)>>
    \o generate_impl_block(class, ctx)

\* the lines generate_type_declaration writes
type_declaration_lines(type_decl) ==
    <<Line(0, "// MTP Type", <<get_string(type_decl, "name")[1]>>)>>
    \o (IF type_decl.children # <<>>
        THEN (IF /\ type_decl.children[1].node_type = "MeaningType"
                 /\ get_string(type_decl.children[1], "meaning") # None
              THEN <<Line(0, "// Semantic meaning:",
                          <<get_string(type_decl.children[1], "meaning")[1]>>)>>
              ELSE <<>>)
             \o <<Line(0, "pub type",
                       <<get_string(type_decl, "name")[1],
                         determine_base_type(type_decl.children[1])>>)>>
        ELSE <<>>)
    \o <<Line(0, "", <<>>)>>

\* the alias generate_type_declaration stores
type_declaration_aliases(aliases, type_decl) ==
    IF type_decl.children # <<>>
    THEN Insert(aliases, get_string(type_decl, "name")[1],
                determine_base_type(type_decl.children[1]))
    ELSE aliases

(***************************************************************************)
(* Code generator: the decoders written by generate_headers.  The body     *)
(* chosen for an extraction function is named after what it does.          *)
(***************************************************************************)
\* the branches with the test for "population" first
integer_extraction_body_population_first(meaning) ==
    IF Contains(meaning, "population") THEN "first_digits_and_dots_as_f64"
    ELSE IF Contains(meaning, "books") \/ Contains(meaning, "count")
            \/ Contains(meaning, "number")
    THEN "first_word_that_parses"
    ELSE IF \/ Contains(meaning, "year") \/ Contains(meaning, "age")
            \/ Contains(meaning, "founded") \/ Contains(meaning, "established")
    THEN (IF Contains(meaning, "age") THEN "digits_in_1_to_149" ELSE "digits_in_1000_to_2100")
    ELSE "extract_generic_number"

\* the range chosen by the test for "year" instead of the test for "age"
integer_extraction_body_range_by_year(meaning) ==
    IF Contains(meaning, "books") \/ Contains(meaning, "count") \/ Contains(meaning, "number")
    THEN "first_word_that_parses"
    ELSE IF \/ Contains(meaning, "year") \/ Contains(meaning, "age")
            \/ Contains(meaning, "founded") \/ Contains(meaning, "established")
    THEN (IF Contains(meaning, "year") THEN "digits_in_1000_to_2100" ELSE "digits_in_1_to_149")
    ELSE IF Contains(meaning, "population") THEN "first_digits_and_dots_as_f64"
    ELSE "extract_generic_number"

integer_extraction_body(meaning) ==
    IF Contains(meaning, "books") \/ Contains(meaning, "count") \/ Contains(meaning, "number")
    THEN "first_word_that_parses"
    ELSE IF \/ Contains(meaning, "year") \/ Contains(meaning, "age")
            \/ Contains(meaning, "founded") \/ Contains(meaning, "established")
    THEN (IF Contains(meaning, "age") THEN "digits_in_1_to_149" ELSE "digits_in_1000_to_2100")
    ELSE IF Contains(meaning, "population") THEN "first_digits_and_dots_as_f64"
    ELSE "extract_generic_number"

float_extraction_body(meaning) ==
    IF Contains(meaning, "rating") \/ Contains(meaning, "scale") \/ Contains(meaning, "quality")
    THEN "first_digits_and_dots"
    ELSE IF Contains(meaning, "price") \/ Contains(meaning, "cost")
    THEN "first_digits_and_dots"
    ELSE IF Contains(meaning, "percentage") \/ Contains(meaning, "percent")
    THEN "first_word_without_percent_sign"
    ELSE "extract_generic_float"

boolean_extraction_body(meaning) ==
    IF Contains(meaning, "available") \/ Contains(meaning, "availability")
    THEN "available_words"
    ELSE IF Contains(meaning, "recommendation") \/ Contains(meaning, "recommend")
    THEN "recommend_words"
    ELSE IF Contains(meaning, "sentiment") THEN "positive_words"
    ELSE "generic_words"

string_extraction_body(meaning) ==
    IF Contains(meaning, "field") \/ Contains(meaning, "area") \/ Contains(meaning, "expertise")
    THEN "first_alphabetic_word_over_3"
    ELSE IF \/ Contains(meaning, "description") \/ Contains(meaning, "information")
            \/ Contains(meaning, "geographic")
    THEN "trim"
    ELSE IF Contains(meaning, "summary") THEN "first_sentence_or_100"
    ELSE IF Contains(meaning, "historical") THEN "first_sentence_or_200"
    ELSE "trim"

\* the name of the extraction function written for a meaning
extraction_function_name(rust_type, normalized_name) ==
    CASE rust_type \in {"i32", "f64"} -> "extract_" \o normalized_name \o "_value"
      [] rust_type = "bool" -> "extract_" \o normalized_name \o "_boolean"
      [] OTHER -> "extract_" \o normalized_name \o "_string"

extraction_body(rust_type, meaning) ==
    CASE rust_type = "i32" -> integer_extraction_body(meaning)
      [] rust_type = "f64" -> float_extraction_body(meaning)
      [] rust_type = "bool" -> boolean_extraction_body(meaning)
      [] OTHER -> string_extraction_body(meaning)

\* the orders in which a HashMap with these keys may be iterated
Orders(keys) ==
    {order \in [1..Cardinality(keys) -> keys] :
        \A i, j \in 1..Cardinality(keys) : i # j => order[i] # order[j]}

\* the match arms a type-specific parser gets: one per meaning of its type
RECURSIVE match_arms(_, _, _, _)
match_arms(meanings, order, i, rust_type) ==
    IF i > Len(order) THEN <<>>
    ELSE (IF meanings[order[i]][1] = rust_type
          THEN <<Line(2, "Some(",
                      <<order[i],
                        extraction_function_name(rust_type, meanings[order[i]][2])>>)>>
          ELSE <<>>)
         \o match_arms(meanings, order, i + 1, rust_type)

semantic_parser(name, meanings, order, rust_type, fallback) ==
    <<Line(0, "fn", <<name>>)>>
    \o match_arms(meanings, order, 1, rust_type)
    \o <<Line(2, "_ =>", <<fallback>>), Line(0, "}", <<>>)>>

generate_dynamic_semantic_parser(meanings, order) ==
    <<Line(0, "fn", <<"parse_semantic_response">>), Line(0, "}", <<>>)>>
    \o semantic_parser("parse_integer_semantic", meanings, order, "i32",
                       "extract_generic_number(content)")
    \o semantic_parser("parse_float_semantic", meanings, order, "f64",
                       "extract_generic_float(content)")
    \o semantic_parser("parse_boolean_semantic", meanings, order, "bool",
                       "extract_generic_boolean(content)")
    \o semantic_parser("parse_string_semantic", meanings, order, "String",
                       "content.trim().to_string()")

\* the match on rust_type in generate_dynamic_extraction_utilities
extraction_family(rust_type) ==
    IF rust_type \in {"i32", "f64", "bool"} THEN rust_type ELSE "String"

RECURSIVE extraction_functions(_, _, _)
extraction_functions(meanings, order, i) ==
    IF i > Len(order) THEN <<>>
    ELSE <<Line(0, "fn",
                <<extraction_function_name(extraction_family(meanings[order[i]][1]),
                                           meanings[order[i]][2])>>),
           Line(1, "// Extract for semantic meaning:",
                <<order[i], extraction_body(meanings[order[i]][1], order[i])>>),
           Line(0, "}", <<>>)>>
         \o extraction_functions(meanings, order, i + 1)

generate_generic_extraction_functions ==
    <<Line(0, "fn", <<"extract_generic_number">>), Line(0, "}", <<>>),
      Line(0, "fn", <<"extract_generic_float">>), Line(0, "}", <<>>),
      Line(0, "fn", <<"extract_generic_boolean">>), Line(0, "}", <<>>)>>

generate_dynamic_extraction_utilities(meanings, order) ==
    extraction_functions(meanings, order, 1) \o generate_generic_extraction_functions

\* what a macro of generate_headers writes is kept as the macro's name
generate_headers(meanings, order) ==
    <<Line(0, "generate_file_header!", <<>>),
      Line(0, "generate_imports!", <<>>),
      Line(0, "generate_parametric_vibe_execute_prompt!", <<>>)>>
    \o generate_dynamic_semantic_parser(meanings, order)
    \o generate_dynamic_extraction_utilities(meanings, order)
    \o <<Line(0, "generate_format_prompt_function!", <<>>),
         Line(0, "generate_vibe_value_enum!", <<>>)>>

(***************************************************************************)
(* Programs handed to the generator: what the parser gives for sources     *)
(* made of these declarations                                              *)
(***************************************************************************)
MaxGenDecls == 2

TypeBasic(name, base) == <<Kw("Type"), Id(name), Kw("Equals"), Id(base), Kw("Semicolon")>>

MeaningOf(base, meaning) ==
    <<Kw("Meaning"), Kw("LeftAngle"), Id(base), Kw("RightAngle"), Kw("LeftParen"),
      Str(meaning), Kw("RightParen")>>

TypeMeaning(name, base, meaning) ==
    <<Kw("Type"), Id(name), Kw("Equals")>> \o MeaningOf(base, meaning) \o <<Kw("Semicolon")>>

\* fn name(p: String) -> <return type> { prompt "template"; }
PromptFn(name, return_type, template) ==
    <<Kw("Fn"), Id(name), Kw("LeftParen"), Id("p"), Kw("Colon"), Id("String"),
      Kw("RightParen"), Kw("Arrow")>> \o return_type
    \o <<Kw("LeftBrace"), Kw("Prompt"), Str(template), Kw("Semicolon"), Kw("RightBrace")>>

\* a function with parameters of an inline meaning type over a built-in
\* type and over an alias, of an alias type and of a built-in type
DescribeFn ==
    <<Kw("Fn"), Id("describe"), Kw("LeftParen"),
      Id("n"), Kw("Colon")>> \o MeaningOf("Int", "a number of items") \o <<Kw("Comma"),
      Id("c"), Kw("Colon"), Id("Count"), Kw("Comma"),
      Id("t"), Kw("Colon")>> \o MeaningOf("Population", "people") \o <<Kw("Comma"),
      Id("f"), Kw("Colon"), Id("Float"),
      Kw("RightParen"), Kw("LeftBrace"), Kw("Prompt"), Str("Describe {n} of {t}"),
      Kw("Semicolon"), Kw("RightBrace")>>

\* a class with one method that returns an integer with a meaning
ShopClass ==
    <<Kw("Class"), Id("Shop"), Kw("LeftBrace")>>
    \o PromptFn("stock", MeaningOf("Int", "number of items"), "How many {p}?")
    \o <<Kw("RightBrace")>>

GenDecls ==
    { TypeMeaning("Population", "Int", "population count in millions"),
      TypeMeaning("Joke", "String", "a short humorous line"),
      TypeMeaning("Available", "Bool", "is available"),
      TypeBasic("Count", "Int"),
      TypeBasic("Count", "Float"),
      TypeBasic("Total", "Count"),
      TypeMeaning("Census", "Population", "census of the year"),
      PromptFn("getPopulation", <<Id("Population")>>, "Population of {p}?"),
      PromptFn("tellJoke", <<Id("Joke")>>, "Tell a joke about {p}"),
      PromptFn("countItems", <<Id("Total")>>, "How many {p} in {p}?"),
      PromptFn("rate", MeaningOf("Float", "rating out of ten"), "Rate {p}"),
      PromptFn("quip", MeaningOf("Joke", "a pun"), "A pun"),
      PromptFn("isOpen", <<Id("Bool")>>, "Is {p} open?"),
      DescribeFn,
      ShopClass,
      FnHead("plain") \o <<Kw("Let"), Id("x"), Kw("Equals"), Token("FloatLit", "1.50"),
                           Kw("Semicolon"), Kw("LeftBrace"), Id("g"), Kw("LeftParen"),
                           Id("x"), Kw("Comma"), Str("s"), Kw("RightParen"),
                           Kw("Semicolon"), Kw("RightBrace"),
                           Kw("Return"), Id("x"), Kw("Semicolon"), Kw("RightBrace")>>,
      DeclClass,
      DeclImport }

GenSources ==
    { Flatten(decls) \o <<EofToken>> :
        decls \in UNION {[1..k -> GenDecls] : k \in 0..MaxGenDecls} }

\* meaning texts: up to MaxMeaningPieces words and separators in a row
MaxMeaningPieces == 2

MeaningPieces == {"the", "a", "Count", "x9", " ", "_"}

RECURSIVE MeaningTexts(_)
MeaningTexts(k) ==
    IF k = 0 THEN {""}
    ELSE MeaningTexts(k - 1)
         \cup {text \o piece : text \in MeaningTexts(k - 1), piece \in MeaningPieces}

\* sources of one or two meaning-annotated type declarations
MeaningSources ==
    { TypeMeaning("Kind", "Int", meaning) \o <<EofToken>> :
        meaning \in MeaningTexts(MaxMeaningPieces) }
    \cup
    { TypeMeaning("Kind", "Int", meaning) \o TypeMeaning("Other", base, other) \o <<EofToken>> :
        meaning \in MeaningTexts(MaxMeaningPieces),
        base \in {"Int", "Float", "Bool"},
        other \in {"count", "the count", "a_Count", "x9"} }

(***************************************************************************)
(* CodeGenerator::generate as a state machine: one step for the headers,   *)
(* one per child of each of the two passes                                 *)
(***************************************************************************)
\* prompt templates: up to MaxTemplateLen braces and letters, and longer ones
\* with a name twice, a brace inside a name, an empty and an open placeholder
MaxTemplateLen == 4

RECURSIVE TemplateTexts(_)
TemplateTexts(k) ==
    IF k = 0 THEN {""}
    ELSE TemplateTexts(k - 1)
         \cup {text \o c : text \in {t \in TemplateTexts(k - 1) : Len(t) = k - 1},
                           c \in {"{", "}", "a", "b"}}

Templates ==
    TemplateTexts(MaxTemplateLen)
    \cup {"{a}{a}", "{a} and {b}, {a}", "x {a{b} y}", "{}{a", "}{ab}} {b"}

TemplateSources ==
    { PromptFn("ask", <<Id("String")>>, template) \o <<EofToken>> : template \in Templates }

\* ASTs built by hand, as a caller of the public generate may pass them: the
\* AST of a source with the name of one declaration left out, or with the
\* template of a function's prompt block left out
HandBuiltDecls ==
    { TypeBasic("Count", "Int"),
      PromptFn("getPopulation", <<Id("Population")>>, "Population of {p}?"),
      FnHead("first") \o <<Kw("Return"), Str("s"), Kw("Semicolon"),
                           Kw("Prompt"), Str("q"), Kw("Semicolon"), Kw("RightBrace")>>,
      DeclClass }

HandBuiltSources ==
    { Flatten(decls) \o <<EofToken>> :
        decls \in UNION {[1..k -> HandBuiltDecls] : k \in 1..MaxGenDecls} }

without_name(node, i) ==
    [node EXCEPT !.children[i].properties = RemoveKey(@, "name")]

body_index(func) == CHOOSE j \in 1..Len(func.children) :
                        func.children[j].node_type = "FunctionBody"

without_template(node, i) ==
    [node EXCEPT !.children[i].children[body_index(node.children[i])].children =
        [k \in 1..Len(@) |->
            IF @[k].node_type = "PromptBlock"
            THEN [@[k] EXCEPT !.properties = RemoveKey(@, "template")]
            ELSE @[k]]]

HandBuiltAsts(source) ==
    { without_name(parse_string_tokens(source), i) :
        i \in 1..Len(parse_string_tokens(source).children) }
    \cup
    { without_template(parse_string_tokens(source), i) :
        i \in {j \in 1..Len(parse_string_tokens(source).children) :
                  parse_string_tokens(source).children[j].node_type = "FunctionDecl"} }

InitGen ==
    /\ pc = "generate"
    /\ LexerUnused
    /\ \/ /\ tokens \in GenSources \cup MeaningSources \cup TemplateSources
          /\ ast = parse_string_tokens(tokens)
          /\ family = "generate"
       \/ /\ tokens \in HandBuiltSources
          /\ ast \in HandBuiltAsts(tokens)
          /\ family = "hand_built"
    /\ program = ast
    /\ current = Len(tokens) - 1
    /\ parse_errors = 0
    /\ reference = <<>>
    /\ output = <<>>
    /\ indent_level = 0
    /\ current_return_type = None
    /\ current_semantic_meaning = None
    /\ type_aliases = <<>>
    /\ semantic_meanings = <<>>
    /\ child_index = 0
    /\ RuntimeUnused

\* collect_semantic_meanings, generate_headers, and the first pass is entered
GenerateHeaders ==
    /\ pc = "generate"
    /\ semantic_meanings' = collect_semantic_meanings(semantic_meanings, ast)
    /\ \E order \in Orders(DOMAIN semantic_meanings') :
           output' = output \o generate_headers(semantic_meanings', order)
    /\ pc' = "type_pass"
    /\ child_index' = 1
    /\ UNCHANGED <<parser_vars, ast, indent_level, current_return_type,
                   current_semantic_meaning, type_aliases,
                   runtime_vars, lexer_vars>>

\* first pass, a TypeDecl child: generate_type_declaration
GenerateTypeDeclaration ==
    /\ pc = "type_pass"
    /\ child_index <= Len(ast.children)
    /\ ast.children[child_index].node_type = "TypeDecl"
    /\ get_string(ast.children[child_index], "name") # None
    /\ output' = output \o type_declaration_lines(ast.children[child_index])
    /\ type_aliases' = type_declaration_aliases(type_aliases, ast.children[child_index])
    /\ child_index' = child_index + 1
    /\ UNCHANGED <<pc, parser_vars, ast, indent_level, current_return_type,
                   current_semantic_meaning, semantic_meanings,
                   runtime_vars, lexer_vars>>

\* first pass, any other child
TypePassSkip ==
    /\ pc = "type_pass"
    /\ child_index <= Len(ast.children)
    /\ ast.children[child_index].node_type # "TypeDecl"
    /\ child_index' = child_index + 1
    /\ UNCHANGED <<pc, parser_vars, ast, output, indent_level, current_return_type,
                   current_semantic_meaning, type_aliases, semantic_meanings,
                   runtime_vars, lexer_vars>>

\* one pass: the first pass is left at the first child that is no TypeDecl
TypePassEnd_AtFirstDeclaration ==
    /\ pc = "type_pass"
    /\ IF child_index > Len(ast.children) THEN TRUE
       ELSE ast.children[child_index].node_type # "TypeDecl"
    /\ pc' = "declaration_pass"
    /\ child_index' = 1
    /\ UNCHANGED <<parser_vars, ast, output, indent_level, current_return_type,
                   current_semantic_meaning, type_aliases, semantic_meanings,
                   runtime_vars, lexer_vars>>

TypePassEnd ==
    /\ pc = "type_pass"
    /\ child_index > Len(ast.children)
    /\ pc' = "declaration_pass"
    /\ child_index' = 1
    /\ UNCHANGED <<parser_vars, ast, output, indent_level, current_return_type,
                   current_semantic_meaning, type_aliases, semantic_meanings,
                   runtime_vars, lexer_vars>>

\* second pass, a FunctionDecl child: generate_function stores the context,
\* writes the function and clears the context
GenerateFunction ==
    /\ pc = "declaration_pass"
    /\ child_index <= Len(ast.children)
    /\ ast.children[child_index].node_type = "FunctionDecl"
    /\ function_error(ast.children[child_index]) = None
    /\ output' = output \o generate_function(ast.children[child_index], type_aliases)
    /\ current_return_type' = None
    /\ current_semantic_meaning' = None
    /\ child_index' = child_index + 1
    /\ UNCHANGED <<pc, parser_vars, ast, indent_level, type_aliases, semantic_meanings,
                   runtime_vars, lexer_vars>>

\* second pass, a ClassDecl child: generate_struct_declaration
GenerateStructDeclaration ==
    /\ pc = "declaration_pass"
    /\ child_index <= Len(ast.children)
    /\ ast.children[child_index].node_type = "ClassDecl"
    /\ get_string(ast.children[child_index], "name") # None
    /\ output' = output \o generate_struct_declaration(
                               ast.children[child_index],
                               Context(current_return_type, current_semantic_meaning,
                                       type_aliases))
    /\ child_index' = child_index + 1
    /\ UNCHANGED <<pc, parser_vars, ast, indent_level, current_return_type,
                   current_semantic_meaning, type_aliases, semantic_meanings,
                   runtime_vars, lexer_vars>>

\* second pass, a TypeDecl (already processed) or any other child
DeclarationPassSkip ==
    /\ pc = "declaration_pass"
    /\ child_index <= Len(ast.children)
    /\ ast.children[child_index].node_type \notin {"FunctionDecl", "ClassDecl"}
    /\ child_index' = child_index + 1
    /\ UNCHANGED <<pc, parser_vars, ast, output, indent_level, current_return_type,
                   current_semantic_meaning, type_aliases, semantic_meanings,
                   runtime_vars, lexer_vars>>

\* Ok(())
GenerateReturn ==
    /\ pc = "declaration_pass"
    /\ child_index > Len(ast.children)
    /\ pc' = "generated"
    /\ UNCHANGED <<parser_vars, generator_vars, runtime_vars, lexer_vars>>

\* File::create or a write between two declarations fails: the error is
\* returned with `?` and the file keeps what was written
WriteFails ==
    /\ pc \in {"generate", "type_pass", "declaration_pass"}
    /\ pc' = "generate_failed"
    /\ UNCHANGED <<parser_vars, generator_vars, runtime_vars, lexer_vars>>

\* a write inside generate_function fails: the lines before it are in the
\* file and the stored context is not cleared
function_fails_at(lines, func, k) ==
    /\ output' = output \o SubSeq(lines, 1, k)
    /\ indent_level' = lines[k + 1].indent
    /\ current_return_type' = Some(determine_return_type(func))
    /\ current_semantic_meaning' = extract_semantic_meaning_from_function(func)

GenerateFunctionFails ==
    /\ pc = "declaration_pass"
    /\ child_index <= Len(ast.children)
    /\ ast.children[child_index].node_type = "FunctionDecl"
    /\ function_error(ast.children[child_index]) = None
    /\ \E k \in 0..2 :
           function_fails_at(generate_function(ast.children[child_index], type_aliases),
                             ast.children[child_index], k)
    /\ pc' = "generate_failed"
    /\ UNCHANGED <<parser_vars, ast, type_aliases, semantic_meanings, child_index,
                   runtime_vars, lexer_vars>>

\* generate_type_declaration returns "Type declaration missing name": nothing
\* is written for the declaration and generate returns the error
GenerateTypeDeclarationMissingName ==
    /\ pc = "type_pass"
    /\ child_index <= Len(ast.children)
    /\ ast.children[child_index].node_type = "TypeDecl"
    /\ get_string(ast.children[child_index], "name") = None
    /\ pc' = "generate_failed"
    /\ UNCHANGED <<parser_vars, generator_vars, runtime_vars, lexer_vars>>

\* generate_function returns "Function missing name" before its first write
GenerateFunctionMissingName ==
    /\ pc = "declaration_pass"
    /\ child_index <= Len(ast.children)
    /\ ast.children[child_index].node_type = "FunctionDecl"
    /\ function_error(ast.children[child_index]) = Some("Function missing name")
    /\ pc' = "generate_failed"
    /\ UNCHANGED <<parser_vars, generator_vars, runtime_vars, lexer_vars>>

\* generate_prompt_block returns "Prompt template not found": the signature
\* and the statements before the prompt block are written, the indentation
\* and the stored context are left as they are
GeneratePromptTemplateNotFound ==
    /\ pc = "declaration_pass"
    /\ child_index <= Len(ast.children)
    /\ ast.children[child_index].node_type = "FunctionDecl"
    /\ function_error(ast.children[child_index]) = Some("Prompt template not found")
    /\ output' = output \o function_lines_before_error(ast.children[child_index],
                                                       type_aliases)
    /\ indent_level' = indent_level + 1
    /\ current_return_type' = Some(determine_return_type(ast.children[child_index]))
    /\ current_semantic_meaning' =
           extract_semantic_meaning_from_function(ast.children[child_index])
    /\ pc' = "generate_failed"
    /\ UNCHANGED <<parser_vars, ast, type_aliases, semantic_meanings, child_index,
                   runtime_vars, lexer_vars>>

\* generate_struct_declaration returns "Struct missing name" before its
\* first write
GenerateStructMissingName ==
    /\ pc = "declaration_pass"
    /\ child_index <= Len(ast.children)
    /\ ast.children[child_index].node_type = "ClassDecl"
    /\ get_string(ast.children[child_index], "name") = None
    /\ pc' = "generate_failed"
    /\ UNCHANGED <<parser_vars, generator_vars, runtime_vars, lexer_vars>>

NextGen ==
    \/ GenerateHeaders
    \/ GenerateTypeDeclaration
    \/ TypePassSkip
    \/ TypePassEnd
    \/ GenerateFunction
    \/ GenerateStructDeclaration
    \/ DeclarationPassSkip
    \/ GenerateReturn
    \/ WriteFails
    \/ GenerateFunctionFails
    \/ GenerateTypeDeclarationMissingName
    \/ GenerateFunctionMissingName
    \/ GeneratePromptTemplateNotFound
    \/ GenerateStructMissingName

SpecGen == InitGen /\ [][NextGen]_vars

(***************************************************************************)
(* What the program declares, read off the AST: the primitive a type name  *)
(* stands for through the declared aliases, and the meaning an alias       *)
(* carries                                                                 *)
(***************************************************************************)
PrimitiveTypes == {"i32", "f64", "bool", "String"}

\* the match of the emitted parse_semantic_response on return_type
parse_semantic_response_arm(return_type) ==
    CASE return_type = "i32" -> "parse_integer_semantic"
      [] return_type = "f64" -> "parse_float_semantic"
      [] return_type = "bool" -> "parse_boolean_semantic"
      [] OTHER -> "parse_string_semantic"

TypeDeclarationsOf(node, name) ==
    {i \in 1..Len(node.children) :
        /\ node.children[i].node_type = "TypeDecl"
        /\ get_string(node.children[i], "name") = Some(name)}

RECURSIVE DeclaredPrimitive(_, _, _)
DeclaredPrimitive(node, name, depth) ==
    IF map_to_rust_type(name) \in PrimitiveTypes THEN Some(map_to_rust_type(name))
    ELSE IF depth = 0 \/ TypeDeclarationsOf(node, name) = {} THEN None
    ELSE DeclaredPrimitive(
             node,
             extract_type_name(
                 node.children[CHOOSE i \in TypeDeclarationsOf(node, name) : TRUE]
                     .children[1])[1],
             depth - 1)

\* the meaning of the alias a type name is declared as, if it has one
AliasMeaning(node, name) ==
    IF \E i \in TypeDeclarationsOf(node, name) :
           node.children[i].children[1].node_type = "MeaningType"
    THEN get_string(
             node.children[CHOOSE i \in TypeDeclarationsOf(node, name) :
                               node.children[i].children[1].node_type = "MeaningType"]
                 .children[1],
             "meaning")
    ELSE None

\* the return type annotation of a function: the first type among its children
ReturnAnnotation(func) ==
    CHOOSE i \in 1..Len(func.children) :
        /\ func.children[i].node_type \in {"BasicType", "MeaningType"}
        /\ \A j \in 1..(i - 1) : func.children[j].node_type \notin {"BasicType", "MeaningType"}

HasReturnAnnotation(func) ==
    \E i \in 1..Len(func.children) : func.children[i].node_type \in {"BasicType", "MeaningType"}

\* explicit annotation, else the alias's meaning, else absent
EffectiveMeaning(node, func) ==
    IF ~HasReturnAnnotation(func) THEN None
    ELSE IF func.children[ReturnAnnotation(func)].node_type = "MeaningType"
    THEN get_string(func.children[ReturnAnnotation(func)], "meaning")
    ELSE AliasMeaning(node, extract_type_name(func.children[ReturnAnnotation(func)])[1])

\* generate_function has just written the function before child_index
FunctionJustGenerated ==
    /\ pc = "declaration_pass"
    /\ child_index > 1
    /\ ast.children[child_index - 1].node_type = "FunctionDecl"

\* the decode calls written for that function: those after its `pub fn` line
LastFunctionLine ==
    CHOOSE i \in 1..Len(output) :
        /\ output[i].text = "pub fn" /\ output[i].indent = 0
        /\ \A j \in (i + 1)..Len(output) : ~(output[j].text = "pub fn" /\ output[j].indent = 0)

LastFunctionCalls ==
    {output[i] : i \in {j \in (LastFunctionLine + 1)..Len(output) :
                            output[j].text = ExecutePrompt}}

(***************************************************************************)
(* C3: the meaning passed to the decode call written for a function's      *)
(* prompt is the meaning of its explicit Meaning<..>("..") return           *)
(* annotation, else the meaning of the alias its return type names, else   *)
(* None.  Violated: for type Joke = Meaning<String>("a short humorous       *)
(* line") and fn tellJoke(..) -> Joke the call is written with None.       *)
(***************************************************************************)
C3_EffectiveMeaning ==
    FunctionJustGenerated =>
        \A call \in LastFunctionCalls :
            call.args[1] = EffectiveMeaning(ast, ast.children[child_index - 1])

(***************************************************************************)
(* C4: the decode call written for a function whose return type stands     *)
(* for a primitive, directly or through declared aliases, receives that    *)
(* primitive, and so is dispatched to that primitive's semantic parser.    *)
(* Violated: fn getPopulation(..) -> Population with Population an alias   *)
(* of Int is written with "Population" and dispatched to the text parser.  *)
(***************************************************************************)
ReturnPrimitive(node, func) ==
    IF ~HasReturnAnnotation(func) THEN Some("String")
    ELSE DeclaredPrimitive(node, extract_type_name(func.children[ReturnAnnotation(func)])[1],
                           Len(node.children))

C4_DecodeCallGetsPrimitive ==
    (FunctionJustGenerated /\ ReturnPrimitive(ast, ast.children[child_index - 1]) # None) =>
        \A call \in LastFunctionCalls :
            /\ call.args[2] = ReturnPrimitive(ast, ast.children[child_index - 1])[1]
            /\ parse_semantic_response_arm(call.args[2])
                   = parse_semantic_response_arm(
                         ReturnPrimitive(ast, ast.children[child_index - 1])[1])

(***************************************************************************)
(* C5: every entry of the type-alias table whose name stands for a         *)
(* primitive through the declared aliases maps the name to that primitive, *)
(* and the alias is written as an alias of it.  Violated: with             *)
(* type Count = Int; type Total = Count; the entry of Total is "Count".    *)
(***************************************************************************)
C5_AliasTablePrimitive ==
    /\ \A name \in DOMAIN type_aliases :
           DeclaredPrimitive(ast, name, Len(ast.children)) # None =>
               type_aliases[name] = DeclaredPrimitive(ast, name, Len(ast.children))[1]
    /\ \A i \in 1..Len(output) :
           (/\ output[i].text = "pub type"
            /\ DeclaredPrimitive(ast, output[i].args[1], Len(ast.children)) # None) =>
               output[i].args[2] \in PrimitiveTypes

(***************************************************************************)
(* Text and numbers of the generated program and the runtime library       *)
(***************************************************************************)
Whitespace == {" ", "\t", "\n"}

RECURSIVE trim_start(_)
trim_start(s) ==
    IF Len(s) > 0 /\ Char(s, 1) \in Whitespace THEN trim_start(SubSeq(s, 2, Len(s))) ELSE s

RECURSIVE trim_end(_)
trim_end(s) ==
    IF Len(s) > 0 /\ Char(s, Len(s)) \in Whitespace
    THEN trim_end(SubSeq(s, 1, Len(s) - 1)) ELSE s

trim(s) == trim_end(trim_start(s))

split_whitespace(s) == SelectSeq(SplitOn(s, Whitespace), LAMBDA w : w # "")

\* chars().filter(keep).collect::<String>()
RECURSIVE FilterChars(_, _)
FilterChars(s, keep) ==
    IF Len(s) = 0 THEN ""
    ELSE (IF Char(s, 1) \in keep THEN Char(s, 1) ELSE "")
         \o FilterChars(SubSeq(s, 2, Len(s)), keep)

I32Max == 2147483647
I32Min == -2147483647 - 1

\* the digits of str::parse::<i32> from character i on: the value is built
\* with checked arithmetic on the side of its sign, an overflow is an Err
RECURSIVE ParseI32Digits(_, _, _, _)
ParseI32Digits(s, i, acc, negative) ==
    IF i > Len(s) THEN Some(acc)
    ELSE IF Char(s, i) \notin Digits THEN None
    ELSE IF negative
    THEN (IF acc < (I32Min + DigitVal(Char(s, i)) + 9) \div 10 THEN None
          ELSE ParseI32Digits(s, i + 1, acc * 10 - DigitVal(Char(s, i)), negative))
    ELSE (IF acc > (I32Max - DigitVal(Char(s, i))) \div 10 THEN None
          ELSE ParseI32Digits(s, i + 1, acc * 10 + DigitVal(Char(s, i)), negative))

\* str::parse::<i32>: an optional sign and at least one digit, nothing else
ParseI32(s) ==
    IF Len(s) = 0 THEN None
    ELSE IF Char(s, 1) \in {"+", "-"}
    THEN (IF Len(s) = 1 THEN None ELSE ParseI32Digits(s, 2, 0, Char(s, 1) = "-"))
    ELSE ParseI32Digits(s, 1, 0, FALSE)

\* An f64 is NaN, an infinity, or the decimal m * 10^(-scale) in the form
\* where m has no trailing zero.  The inputs keep m within 9 digits.
NaN == [class |-> "nan", m |-> 0, scale |-> 0]
Infinity(negative) == [class |-> IF negative THEN "-inf" ELSE "inf", m |-> 0, scale |-> 0]

RECURSIVE Finite(_, _)
Finite(m, scale) ==
    IF m = 0 THEN [class |-> "finite", m |-> 0, scale |-> 0]
    ELSE IF m % 10 = 0 THEN Finite(m \div 10, scale - 1)
    ELSE [class |-> "finite", m |-> m, scale |-> scale]

\* `value as f64` of an i32
I32AsF64(n) == Finite(n, 0)

\* `n as i32` of an f64: truncation toward zero, saturating at the bounds,
\* 0 for NaN
F64AsI32(n) ==
    CASE n.class = "nan" -> 0
      [] n.class = "inf" -> I32Max
      [] n.class = "-inf" -> I32Min
      [] OTHER ->
            IF n.scale > 9 THEN 0
            ELSE IF n.scale >= 0
            THEN (IF n.m >= 0 THEN n.m \div Pow10(n.scale) ELSE -((-n.m) \div Pow10(n.scale)))
            ELSE IF -n.scale > 9 THEN (IF n.m > 0 THEN I32Max ELSE I32Min)
            ELSE IF n.m > I32Max \div Pow10(-n.scale) THEN I32Max
            ELSE IF n.m < -(I32Max \div Pow10(-n.scale)) THEN I32Min
            ELSE n.m * Pow10(-n.scale)

\* the position of the first character of s in the set, 0 when there is none
FirstOf(s, set) ==
    IF \E i \in 1..Len(s) : Char(s, i) \in set
    THEN CHOOSE i \in 1..Len(s) : Char(s, i) \in set /\ \A j \in 1..(i - 1) : Char(s, j) \notin set
    ELSE 0

\* the decimal part of an f64 literal: digits [. digits] with a digit on at
\* least one side, as <<digits, number of fraction digits>>
ParseMantissa(s, dot) ==
    IF dot = 0
    THEN (IF Len(s) > 0 /\ AllDigits(s) THEN Some(<<DigitsValue(s), 0>>) ELSE None)
    ELSE IF /\ Len(s) > 1
            /\ AllDigits(SubSeq(s, 1, dot - 1))
            /\ AllDigits(SubSeq(s, dot + 1, Len(s)))
    THEN Some(<<DigitsValue(SubSeq(s, 1, dot - 1) \o SubSeq(s, dot + 1, Len(s))),
                Len(s) - dot>>)
    ELSE None

\* the exponent of an f64 literal: an optional sign and at least one digit
ParseExponent(s) ==
    IF Len(s) = 0 THEN None
    ELSE IF Char(s, 1) \in {"+", "-"}
    THEN (IF Len(s) > 1 /\ AllDigits(SubSeq(s, 2, Len(s)))
          THEN Some((IF Char(s, 1) = "-" THEN -1 ELSE 1) * DigitsValue(SubSeq(s, 2, Len(s))))
          ELSE None)
    ELSE IF AllDigits(s) THEN Some(DigitsValue(s)) ELSE None

SignedFinite(negative, mantissa, exponent) ==
    IF mantissa = None \/ exponent = None THEN None
    ELSE Some(Finite((IF negative THEN -1 ELSE 1) * mantissa[1][1],
                     mantissa[1][2] - exponent[1]))

\* an unsigned f64 literal with the position of its `e`
ParseUnsignedF64(s, negative, e) ==
    IF to_lowercase(s) \in {"inf", "infinity"} THEN Some(Infinity(negative))
    ELSE IF to_lowercase(s) = "nan" THEN Some(NaN)
    ELSE IF e = 0 THEN SignedFinite(negative, ParseMantissa(s, FirstOf(s, {"."})), Some(0))
    ELSE SignedFinite(negative,
                      ParseMantissa(SubSeq(s, 1, e - 1), FirstOf(SubSeq(s, 1, e - 1), {"."})),
                      ParseExponent(SubSeq(s, e + 1, Len(s))))

\* str::parse::<f64>
ParseF64(s) ==
    IF Len(s) = 0 THEN None
    ELSE IF Char(s, 1) \in {"+", "-"}
    THEN ParseUnsignedF64(SubSeq(s, 2, Len(s)), Char(s, 1) = "-",
                          FirstOf(SubSeq(s, 2, Len(s)), {"e", "E"}))
    ELSE ParseUnsignedF64(s, FALSE, FirstOf(s, {"e", "E"}))

RECURSIVE Zeros(_)
Zeros(k) == IF k <= 0 THEN "" ELSE "0" \o Zeros(k - 1)

\* the digits of a positive decimal with the point `scale` places from the right
PointAt(digits, scale) ==
    SubSeq(digits, 1, Len(digits) - scale) \o "."
    \o SubSeq(digits, Len(digits) - scale + 1, Len(digits))

\* Display of an f64: no exponent form, no fraction for a whole number
F64ToString(n) ==
    CASE n.class = "nan" -> "NaN"
      [] n.class = "inf" -> "inf"
      [] n.class = "-inf" -> "-inf"
      [] OTHER ->
            (IF n.m < 0 THEN "-" ELSE "")
            \o (IF n.scale <= 0
                THEN NatToString(IF n.m < 0 THEN -n.m ELSE n.m) \o Zeros(-n.scale)
                ELSE PointAt(Zeros(n.scale + 1
                                   - Len(NatToString(IF n.m < 0 THEN -n.m ELSE n.m)))
                             \o NatToString(IF n.m < 0 THEN -n.m ELSE n.m),
                             n.scale))

(***************************************************************************)
(* VibeValue (runtime/types.rs, and the enum of the generated program)     *)
(***************************************************************************)
Null == [variant |-> "Null", b |-> FALSE, n |-> Finite(0, 0), s |-> ""]
Boolean(b) == [variant |-> "Boolean", b |-> b, n |-> Finite(0, 0), s |-> ""]
Number(n) == [variant |-> "Number", b |-> FALSE, n |-> n, s |-> ""]
String(s) == [variant |-> "String", b |-> FALSE, n |-> Finite(0, 0), s |-> s]

\* what a conversion gives: the value returned, in the field of its type, or
\* a panic
ReturnedI32(i) ==
    [outcome |-> "returned", type |-> "i32", i |-> i, n |-> Finite(0, 0), b |-> FALSE, s |-> ""]
ReturnedF64(n) ==
    [outcome |-> "returned", type |-> "f64", i |-> 0, n |-> n, b |-> FALSE, s |-> ""]
ReturnedBool(b) ==
    [outcome |-> "returned", type |-> "bool", i |-> 0, n |-> Finite(0, 0), b |-> b, s |-> ""]
ReturnedString(s) ==
    [outcome |-> "returned", type |-> "String", i |-> 0, n |-> Finite(0, 0), b |-> FALSE, s |-> s]
Panicked(type) ==
    [outcome |-> "panicked", type |-> type, i |-> 0, n |-> Finite(0, 0), b |-> FALSE, s |-> ""]
NotReturned ==
    [outcome |-> "none", type |-> "", i |-> 0, n |-> Finite(0, 0), b |-> FALSE, s |-> ""]

\* Ok(x) => Returned(x), Err(_) => panic!
returned_or_panic_i32(parsed) ==
    IF parsed # None THEN ReturnedI32(parsed[1]) ELSE Panicked("i32")

into_i32(v) ==
    CASE v.variant = "Number" -> ReturnedI32(F64AsI32(v.n))
      [] v.variant = "String" -> returned_or_panic_i32(ParseI32(v.s))
      [] OTHER -> Panicked("i32")

returned_or_panic_f64(parsed) ==
    IF parsed # None THEN ReturnedF64(parsed[1]) ELSE Panicked("f64")

into_f64(v) ==
    CASE v.variant = "Number" -> ReturnedF64(v.n)
      [] v.variant = "String" -> returned_or_panic_f64(ParseF64(v.s))
      [] OTHER -> Panicked("f64")

into_bool(v) ==
    CASE v.variant = "Boolean" -> ReturnedBool(v.b)
      [] v.variant = "String" ->
            IF to_lowercase(v.s) = "true" THEN ReturnedBool(TRUE)
            ELSE IF to_lowercase(v.s) = "false" THEN ReturnedBool(FALSE)
            ELSE Panicked("bool")
      [] OTHER -> Panicked("bool")

into_string(v) ==
    CASE v.variant = "String" -> ReturnedString(v.s)
      [] v.variant = "Number" -> ReturnedString(F64ToString(v.n))
      [] v.variant = "Boolean" -> ReturnedString(IF v.b THEN "true" ELSE "false")
      [] OTHER -> ReturnedString("")

(***************************************************************************)
(* The conversion generate_type_conversion writes after the decode call    *)
(***************************************************************************)
\* the String arm written with unwrap() in place of unwrap_or(0)
generated_i32_conversion_unwrap(v) ==
    CASE v.variant = "Number" -> ReturnedI32(F64AsI32(v.n))
      [] v.variant = "String" -> returned_or_panic_i32(ParseI32(v.s))
      [] v.variant = "Boolean" -> ReturnedI32(IF v.b THEN 1 ELSE 0)
      [] OTHER -> ReturnedI32(0)

generated_i32_conversion(v) ==
    CASE v.variant = "Number" -> ReturnedI32(F64AsI32(v.n))
      [] v.variant = "String" -> ReturnedI32(unwrap_or(ParseI32(v.s), 0))
      [] v.variant = "Boolean" -> ReturnedI32(IF v.b THEN 1 ELSE 0)
      [] OTHER -> ReturnedI32(0)

generated_f64_conversion(v) ==
    CASE v.variant = "Number" -> ReturnedF64(v.n)
      [] v.variant = "String" -> ReturnedF64(unwrap_or(ParseF64(v.s), Finite(0, 0)))
      [] v.variant = "Boolean" -> ReturnedF64(IF v.b THEN Finite(1, 0) ELSE Finite(0, 0))
      [] OTHER -> ReturnedF64(Finite(0, 0))

\* the String arm written as an equality with "true"
generated_bool_conversion_equals(v) ==
    CASE v.variant = "Boolean" -> ReturnedBool(v.b)
      [] v.variant = "String" -> ReturnedBool(to_lowercase(v.s) = "true")
      [] v.variant = "Number" -> ReturnedBool(v.n # Finite(0, 0))
      [] OTHER -> ReturnedBool(FALSE)

generated_bool_conversion(v) ==
    CASE v.variant = "Boolean" -> ReturnedBool(v.b)
      [] v.variant = "String" ->
            ReturnedBool(Contains(to_lowercase(v.s), "true")
                         \/ Contains(to_lowercase(v.s), "yes"))
      [] v.variant = "Number" -> ReturnedBool(v.n # Finite(0, 0))
      [] OTHER -> ReturnedBool(FALSE)

generated_string_conversion(v) ==
    CASE v.variant = "String" -> ReturnedString(v.s)
      [] v.variant = "Number" -> ReturnedString(F64ToString(v.n))
      [] v.variant = "Boolean" -> ReturnedString(IF v.b THEN "true" ELSE "false")
      [] OTHER -> ReturnedString("")

\* the match written by the arm of generate_type_conversion
generated_conversion(arm, v) ==
    CASE arm = "i32" -> generated_i32_conversion(v)
      [] arm = "f64" -> generated_f64_conversion(v)
      [] arm = "bool" -> generated_bool_conversion(v)
      [] OTHER -> generated_string_conversion(v)

(***************************************************************************)
(* The extraction functions of the generated program, by the body          *)
(* generate_*_extraction_function wrote for the meaning                    *)
(***************************************************************************)
\* find_map(|word| word.parse::<i32>().ok())
RECURSIVE first_parsed_i32(_, _)
first_parsed_i32(words, i) ==
    IF i > Len(words) THEN None
    ELSE IF ParseI32(words[i]) # None THEN ParseI32(words[i])
    ELSE first_parsed_i32(words, i + 1)

extract_generic_number(text) == unwrap_or(first_parsed_i32(split_whitespace(text), 1), 0)

\* for word in ..: the digits of the first word that give a value in low..high
RECURSIVE first_digits_in_range(_, _, _, _)
first_digits_in_range(words, i, low, high) ==
    IF i > Len(words) THEN 0
    ELSE IF /\ ParseI32(FilterChars(words[i], Digits)) # None
            /\ ParseI32(FilterChars(words[i], Digits))[1] \in low..high
         THEN ParseI32(FilterChars(words[i], Digits))[1]
         ELSE first_digits_in_range(words, i + 1, low, high)

\* find_map(|word| <digits and dots of word>.parse::<f64>().ok())
RECURSIVE first_digits_and_dots(_, _)
first_digits_and_dots(words, i) ==
    IF i > Len(words) THEN None
    ELSE IF ParseF64(FilterChars(words[i], Digits \cup {"."})) # None
         THEN ParseF64(FilterChars(words[i], Digits \cup {"."}))
         ELSE first_digits_and_dots(words, i + 1)

\* .map(|f| f as i32) .. .unwrap_or(0)
as_i32_or_0(found) == IF found # None THEN F64AsI32(found[1]) ELSE 0

integer_extraction(body, text) ==
    CASE body = "first_word_that_parses" ->
            unwrap_or(first_parsed_i32(split_whitespace(text), 1), 0)
      [] body = "digits_in_1_to_149" -> first_digits_in_range(split_whitespace(text), 1, 1, 149)
      [] body = "digits_in_1000_to_2100" ->
            first_digits_in_range(split_whitespace(text), 1, 1000, 2100)
      [] body = "first_digits_and_dots_as_f64" ->
            as_i32_or_0(first_digits_and_dots(split_whitespace(text), 1))
      [] OTHER -> extract_generic_number(text)

RECURSIVE first_parsed_f64(_, _)
first_parsed_f64(words, i) ==
    IF i > Len(words) THEN None
    ELSE IF ParseF64(words[i]) # None THEN ParseF64(words[i])
    ELSE first_parsed_f64(words, i + 1)

extract_generic_float(text) ==
    unwrap_or(first_parsed_f64(split_whitespace(text), 1), Finite(0, 0))

RECURSIVE trim_end_matches(_, _)
trim_end_matches(s, c) ==
    IF Len(s) > 0 /\ Char(s, Len(s)) = c THEN trim_end_matches(SubSeq(s, 1, Len(s) - 1), c)
    ELSE s

RECURSIVE first_without_percent_sign(_, _)
first_without_percent_sign(words, i) ==
    IF i > Len(words) THEN None
    ELSE IF ParseF64(trim_end_matches(words[i], "%")) # None
         THEN ParseF64(trim_end_matches(words[i], "%"))
         ELSE first_without_percent_sign(words, i + 1)

float_extraction(body, text) ==
    CASE body = "first_digits_and_dots" ->
            unwrap_or(first_digits_and_dots(split_whitespace(text), 1), Finite(0, 0))
      [] body = "first_word_without_percent_sign" ->
            unwrap_or(first_without_percent_sign(split_whitespace(text), 1), Finite(0, 0))
      [] OTHER -> extract_generic_float(text)

available_words == {"available", "in stock", "yes", "true", "ready", "open"}
recommend_words == {"recommend", "suggest", "yes", "should", "good", "advised"}
positive_words == {"positive", "good", "happy", "excellent", "great"}

extract_generic_boolean(text) ==
    \/ Contains(to_lowercase(text), "true")
    \/ Contains(to_lowercase(text), "yes")
    \/ Contains(to_lowercase(text), "positive")

boolean_extraction(body, text) ==
    CASE body = "available_words" ->
            \E word \in available_words : Contains(to_lowercase(text), word)
      [] body = "recommend_words" ->
            \E word \in recommend_words : Contains(to_lowercase(text), word)
      [] body = "positive_words" ->
            \E word \in positive_words : Contains(to_lowercase(text), word)
      [] OTHER ->
            \/ Contains(to_lowercase(text), "yes")
            \/ Contains(to_lowercase(text), "true")
            \/ Contains(to_lowercase(text), "positive")

is_alphabetic(c) == IsUpper(c) \/ IsLower(c)

\* find(|word| word.len() > 3 && word.chars().all(|c| c.is_alphabetic()))
RECURSIVE first_alphabetic_word(_, _)
first_alphabetic_word(words, i) ==
    IF i > Len(words) THEN "unknown"
    ELSE IF Len(words[i]) > 3 /\ \A k \in 1..Len(words[i]) : is_alphabetic(Char(words[i], k))
         THEN words[i]
         ELSE first_alphabetic_word(words, i + 1)

\* text.split('.').next() is Some for every text: the branches on the
\* length of the text are never taken
string_extraction(body, text) ==
    CASE body = "first_alphabetic_word_over_3" ->
            first_alphabetic_word(split_whitespace(text), 1)
      [] body \in {"first_sentence_or_100", "first_sentence_or_200"} ->
            trim(SplitOn(text, {"."})[1])
      [] OTHER -> trim(text)

(***************************************************************************)
(* The decoders of the generated program: parse_semantic_response and the  *)
(* parser of each primitive.  A match arm exists for each meaning of the   *)
(* table with the parser's type.                                           *)
(***************************************************************************)
Decoded(value, via) == [value |-> value, via |-> via]

has_arm(meanings, meaning_arg, rust_type) ==
    /\ meaning_arg # None
    /\ meaning_arg[1] \in DOMAIN meanings
    /\ meanings[meaning_arg[1]][1] = rust_type

\* let extracted = match meaning { .. }; VibeValue::Number(extracted as f64)
integer_by_meaning(text, meaning_arg, meanings) ==
    IF has_arm(meanings, meaning_arg, "i32")
    THEN Decoded(Number(I32AsF64(integer_extraction(integer_extraction_body(meaning_arg[1]),
                                                   text))),
                 extraction_function_name("i32", meanings[meaning_arg[1]][2]))
    ELSE Decoded(Number(I32AsF64(extract_generic_number(text))), "extract_generic_number")

\* the parser without its direct parse: every reply goes to the match
parse_integer_semantic_by_meaning_only(text, meaning_arg, meanings) ==
    integer_by_meaning(text, meaning_arg, meanings)

parse_integer_semantic(text, meaning_arg, meanings) ==
    IF ParseI32(trim(text)) # None
    THEN Decoded(Number(I32AsF64(ParseI32(trim(text))[1])), "direct parse")
    ELSE integer_by_meaning(text, meaning_arg, meanings)

parse_float_semantic(text, meaning_arg, meanings) ==
    IF ParseF64(trim(text)) # None
    THEN Decoded(Number(ParseF64(trim(text))[1]), "direct parse")
    ELSE IF has_arm(meanings, meaning_arg, "f64")
    THEN Decoded(Number(float_extraction(float_extraction_body(meaning_arg[1]), text)),
                 extraction_function_name("f64", meanings[meaning_arg[1]][2]))
    ELSE Decoded(Number(extract_generic_float(text)), "extract_generic_float")

\* let result = match meaning { .. }; VibeValue::Boolean(result)
boolean_by_meaning(text, meaning_arg, meanings) ==
    IF has_arm(meanings, meaning_arg, "bool")
    THEN Decoded(Boolean(boolean_extraction(boolean_extraction_body(meaning_arg[1]), text)),
                 extraction_function_name("bool", meanings[meaning_arg[1]][2]))
    ELSE Decoded(Boolean(extract_generic_boolean(text)), "extract_generic_boolean")

\* the parser without its direct tests: every reply goes to the match
parse_boolean_semantic_by_meaning_only(text, meaning_arg, meanings) ==
    boolean_by_meaning(text, meaning_arg, meanings)

parse_boolean_semantic(text, meaning_arg, meanings) ==
    IF Contains(to_lowercase(text), "true") \/ Contains(to_lowercase(text), "yes")
    THEN Decoded(Boolean(TRUE), "direct parse")
    ELSE IF Contains(to_lowercase(text), "false") \/ Contains(to_lowercase(text), "no")
    THEN Decoded(Boolean(FALSE), "direct parse")
    ELSE boolean_by_meaning(text, meaning_arg, meanings)

parse_string_semantic(text, meaning_arg, meanings) ==
    IF has_arm(meanings, meaning_arg, "String")
    THEN Decoded(String(string_extraction(string_extraction_body(meaning_arg[1]), text)),
                 extraction_function_name("String", meanings[meaning_arg[1]][2]))
    ELSE Decoded(String(trim(text)), "content.trim()")

parse_semantic_response(text, meaning_arg, type_arg, meanings) ==
    CASE type_arg = "i32" -> parse_integer_semantic(text, meaning_arg, meanings)
      [] type_arg = "f64" -> parse_float_semantic(text, meaning_arg, meanings)
      [] type_arg = "bool" -> parse_boolean_semantic(text, meaning_arg, meanings)
      [] OTHER -> parse_string_semantic(text, meaning_arg, meanings)

(***************************************************************************)
(* The generated program at work: the tables are those the generator       *)
(* builds for RunProgram; a reply of the backend is decoded by             *)
(* parse_semantic_response and the value converted.  A VibeValue may also  *)
(* be built by a caller of the runtime library and converted.              *)
(***************************************************************************)
MaxReplyWords == 2

RunProgram ==
    parse_string_tokens(
        Flatten(<<TypeMeaning("Population", "Int", "population count in millions"),
                  TypeMeaning("Village", "Int", "village population"),
                  TypeMeaning("Census", "Int", "population this year"),
                  TypeMeaning("People", "Int", "population"),
                  TypeMeaning("Size", "Int", "shoe size"),
                  TypeMeaning("Books", "Int", "number of books since the founded year"),
                  TypeMeaning("Founded", "Int", "year founded"),
                  TypeMeaning("Age", "Int", "age in years"),
                  TypeMeaning("Town", "Int", "established population"),
                  TypeMeaning("Available", "Bool", "product available"),
                  TypeMeaning("Rating", "Float", "rating out of ten"),
                  TypeMeaning("Summary", "String", "summary")>>)
        \o <<EofToken>>)

\* the first pass of generate over the children from i on
RECURSIVE type_pass_aliases(_, _, _)
type_pass_aliases(aliases, children, i) ==
    IF i > Len(children) THEN aliases
    ELSE type_pass_aliases(IF children[i].node_type = "TypeDecl"
                           THEN type_declaration_aliases(aliases, children[i])
                           ELSE aliases,
                           children, i + 1)

ReplyWords == {"42", "yes", "no", "1.5"}

\* a reply of 104 characters without a period
LongReply ==
    "the quick brown fox jumps " \o "over the lazy dog and then " \o "runs through the long field "
    \o "until the evening comes"

\* replies of up to MaxReplyWords words
RECURSIVE WordReplies(_)
WordReplies(k) ==
    IF k = 1 THEN ReplyWords
    ELSE WordReplies(k - 1)
         \cup {reply \o " " \o word : reply \in WordReplies(k - 1), word \in ReplyWords}

Replies ==
    WordReplies(MaxReplyWords)
    \cup {"approximately 67 million", "Yes, it's in stock", "no numbers here", " 42 ", "-7",
          "maybe", "in stock", "TRUE", "about 1999 or 75%", "4.9/5 stars", "",
          "aged 150 or 149", "0 to 2101 since 1000", "year 999 or 2100", "x1.5 y 7",
          LongReply, " First point. Second point."}

MeaningArguments ==
    {None, Some("unlisted meaning")} \cup {Some(meaning) : meaning \in DOMAIN semantic_meanings}

\* the return_type argument of the call: a primitive, or the name of an alias
ReturnTypeArguments == {"i32", "f64", "bool", "String", "Population"}

Values ==
    {Null, Boolean(TRUE), Boolean(FALSE)}
    \cup {Number(n) : n \in {Finite(429, 1), Finite(-429, 1), Finite(0, 0), Finite(3, -9),
                             NaN, Infinity(FALSE), Infinity(TRUE)}}
    \cup {String(text) : text \in {"123", "abc", "", "1.5", "true", "FALSE", "TRUE",
                                   "Yes please", "maybe", " 42", "-8"}}

ParserUnused ==
    /\ tokens = <<EofToken>>
    /\ current = 0
    /\ program = AstNode("Program")
    /\ parse_errors = 0
    /\ family = "run"
    /\ reference = <<>>

InitRun ==
    /\ ParserUnused
    /\ LexerUnused
    /\ FormatUnused
    /\ ast = RunProgram
    /\ output = <<>>
    /\ indent_level = 0
    /\ current_return_type = None
    /\ current_semantic_meaning = None
    /\ child_index = 0
    /\ semantic_meanings = collect_semantic_meanings(<<>>, RunProgram)
    /\ type_aliases = type_pass_aliases(<<>>, RunProgram.children, 1)
    /\ decoded_via = ""
    /\ conversion = ""
    /\ returned = NotReturned
    /\ \/ /\ pc = "reply"
          /\ call_content \in Replies
          /\ call_meaning \in MeaningArguments
          /\ call_return_type \in ReturnTypeArguments
          /\ prompt_result = Null
       \/ /\ pc = "value"
          /\ call_content = ""
          /\ call_meaning = None
          /\ call_return_type = ""
          /\ prompt_result \in Values

decoded_as(d) ==
    /\ prompt_result' = d.value
    /\ decoded_via' = d.via

\* parse_semantic_response is called with a reply, a meaning and a return type
ParseSemanticResponse ==
    /\ pc = "reply"
    /\ decoded_as(parse_semantic_response(call_content, call_meaning, call_return_type,
                                          semantic_meanings))
    /\ pc' = "decoded"
    /\ UNCHANGED <<parser_vars, generator_vars, lexer_vars, format_vars, call_content, call_meaning, call_return_type,
                   conversion, returned>>

\* the match written by generate_type_conversion for the function's return
\* type, on the value the call returned
ConvertGenerated ==
    /\ pc = "decoded"
    /\ conversion' = "generated " \o resolve_type_alias(type_aliases, call_return_type)
    /\ returned' = generated_conversion(resolve_type_alias(type_aliases, call_return_type),
                                        prompt_result)
    /\ pc' = "converted"
    /\ UNCHANGED <<parser_vars, generator_vars, lexer_vars, format_vars, call_content, call_meaning, call_return_type,
                   prompt_result, decoded_via>>

\* the same matches on a value of any variant
ConvertGeneratedValue ==
    /\ pc = "value"
    /\ \E arm \in {"i32", "f64", "bool", "String"} :
           /\ conversion' = "generated " \o arm
           /\ returned' = generated_conversion(arm, prompt_result)
    /\ pc' = "converted"
    /\ UNCHANGED <<parser_vars, generator_vars, lexer_vars, format_vars, call_content, call_meaning, call_return_type,
                   prompt_result, decoded_via>>

IntoI32 ==
    /\ pc \in {"decoded", "value"}
    /\ conversion' = "into_i32"
    /\ returned' = into_i32(prompt_result)
    /\ pc' = "converted"
    /\ UNCHANGED <<parser_vars, generator_vars, lexer_vars, format_vars, call_content, call_meaning, call_return_type,
                   prompt_result, decoded_via>>

IntoF64 ==
    /\ pc \in {"decoded", "value"}
    /\ conversion' = "into_f64"
    /\ returned' = into_f64(prompt_result)
    /\ pc' = "converted"
    /\ UNCHANGED <<parser_vars, generator_vars, lexer_vars, format_vars, call_content, call_meaning, call_return_type,
                   prompt_result, decoded_via>>

IntoBool ==
    /\ pc \in {"decoded", "value"}
    /\ conversion' = "into_bool"
    /\ returned' = into_bool(prompt_result)
    /\ pc' = "converted"
    /\ UNCHANGED <<parser_vars, generator_vars, lexer_vars, format_vars, call_content, call_meaning, call_return_type,
                   prompt_result, decoded_via>>

IntoString ==
    /\ pc \in {"decoded", "value"}
    /\ conversion' = "into_string"
    /\ returned' = into_string(prompt_result)
    /\ pc' = "converted"
    /\ UNCHANGED <<parser_vars, generator_vars, lexer_vars, format_vars, call_content, call_meaning, call_return_type,
                   prompt_result, decoded_via>>

NextRun ==
    \/ ParseSemanticResponse
    \/ ConvertGenerated
    \/ ConvertGeneratedValue
    \/ IntoI32
    \/ IntoF64
    \/ IntoBool
    \/ IntoString

SpecRun == InitRun /\ [][NextRun]_vars

(***************************************************************************)
(* What the claims on conversions expect of a value                        *)
(***************************************************************************)
ClaimedVariants == {"Number", "Boolean", "String"}

ExpectedI32(v) ==
    CASE v.variant = "Number" -> F64AsI32(v.n)
      [] v.variant = "String" -> (IF ParseI32(v.s) # None THEN ParseI32(v.s)[1] ELSE 0)
      [] v.variant = "Boolean" -> (IF v.b THEN 1 ELSE 0)
      [] OTHER -> 0

ExpectedF64(v) ==
    CASE v.variant = "Number" -> v.n
      [] v.variant = "String" -> (IF ParseF64(v.s) # None THEN ParseF64(v.s)[1] ELSE Finite(0, 0))
      [] v.variant = "Boolean" -> (IF v.b THEN Finite(1, 0) ELSE Finite(0, 0))
      [] OTHER -> Finite(0, 0)

ExpectedBool(v) ==
    CASE v.variant = "Boolean" -> v.b
      [] v.variant = "Number" -> v.n # Finite(0, 0)
      [] v.variant = "String" ->
            Contains(to_lowercase(v.s), "true") \/ Contains(to_lowercase(v.s), "yes")
      [] OTHER -> FALSE

(***************************************************************************)
(* C6 as stated: every conversion of a number, boolean or text to integer  *)
(* or float returns, and returns the truncated number, the parsed text or  *)
(* 0, and 1/0 for a boolean (the number, the parsed text or 0.0, 1.0/0.0). *)
(* Violated: VibeValue::into_i32 and into_f64 panic on a boolean and on a  *)
(* text that does not parse.                                               *)
(***************************************************************************)
C6_NumericConversionTotal ==
    (pc = "converted" /\ prompt_result.variant \in ClaimedVariants) =>
        /\ conversion \in {"generated i32", "into_i32"} =>
               returned = ReturnedI32(ExpectedI32(prompt_result))
        /\ conversion \in {"generated f64", "into_f64"} =>
               returned = ReturnedF64(ExpectedF64(prompt_result))

(***************************************************************************)
(* C6 as amended: the conversion written into the generated function is    *)
(* total: to integer it returns the number truncated toward zero           *)
(* (saturated at the bounds of i32, 0 for NaN), the parsed text or 0, 1/0   *)
(* for a boolean and 0 for null; to float the number, the parsed text or   *)
(* 0.0, 1.0/0.0 and 0.0.  VibeValue::into_i32 and into_f64 return the same *)
(* for a number and a text that parses, and panic on a boolean, on null    *)
(* and on a text that does not parse.                                      *)
(***************************************************************************)
C6_GeneratedNumericConversionTotal ==
    pc = "converted" =>
        /\ conversion = "generated i32" => returned = ReturnedI32(ExpectedI32(prompt_result))
        /\ conversion = "generated f64" => returned = ReturnedF64(ExpectedF64(prompt_result))
        /\ conversion = "into_i32" =>
               returned = IF \/ prompt_result.variant = "Number"
                             \/ /\ prompt_result.variant = "String"
                                /\ ParseI32(prompt_result.s) # None
                          THEN ReturnedI32(ExpectedI32(prompt_result))
                          ELSE Panicked("i32")
        /\ conversion = "into_f64" =>
               returned = IF \/ prompt_result.variant = "Number"
                             \/ /\ prompt_result.variant = "String"
                                /\ ParseF64(prompt_result.s) # None
                          THEN ReturnedF64(ExpectedF64(prompt_result))
                          ELSE Panicked("f64")

\* the generated conversion to integer of a text that does not parse gives 0
C6_Witness ==
    /\ pc = "converted"
    /\ conversion = "generated i32"
    /\ prompt_result = String("abc")
    /\ returned = ReturnedI32(0)

(***************************************************************************)
(* C7 as stated: every conversion to boolean passes a boolean through,     *)
(* gives true for a number exactly when it is nonzero, and for a text      *)
(* exactly when its lower-cased form contains "true" or "yes", without     *)
(* failing.  Violated: VibeValue::into_bool panics on the text "maybe" and *)
(* on a number.                                                            *)
(***************************************************************************)
C7_BooleanConversion ==
    (/\ pc = "converted"
     /\ prompt_result.variant \in ClaimedVariants
     /\ conversion \in {"generated bool", "into_bool"}) =>
        returned = ReturnedBool(ExpectedBool(prompt_result))

(***************************************************************************)
(* C7 as amended: the conversion written into the generated function       *)
(* passes a boolean through, gives true for a number exactly when it is    *)
(* nonzero, for a text exactly when its lower-cased form contains "true"   *)
(* or "yes", and false for null.  VibeValue::into_bool passes a boolean    *)
(* through, gives true for a text whose lower-cased form is "true", false  *)
(* for one whose lower-cased form is "false", and panics on any other      *)
(* text, on a number and on null.                                          *)
(***************************************************************************)
C7_GeneratedBooleanConversion ==
    pc = "converted" =>
        /\ conversion = "generated bool" =>
               returned = ReturnedBool(ExpectedBool(prompt_result))
        /\ conversion = "into_bool" =>
               returned =
                   CASE prompt_result.variant = "Boolean" -> ReturnedBool(prompt_result.b)
                     [] /\ prompt_result.variant = "String"
                        /\ to_lowercase(prompt_result.s) \in {"true", "false"} ->
                            ReturnedBool(to_lowercase(prompt_result.s) = "true")
                     [] OTHER -> Panicked("bool")

\* the generated conversion to boolean of a text that contains "yes"
C7_Witness ==
    /\ pc = "converted"
    /\ conversion = "generated bool"
    /\ prompt_result = String("Yes please")
    /\ returned = ReturnedBool(TRUE)

(***************************************************************************)
(* Replies that are an integer in decimal: an optional sign and one to     *)
(* nine digits around which there is only whitespace                       *)
(***************************************************************************)
Unsigned(text) == IF Len(text) > 0 /\ Char(text, 1) \in {"+", "-"}
                  THEN SubSeq(text, 2, Len(text)) ELSE text

IsDecimalInteger(text) ==
    /\ Len(Unsigned(text)) \in 1..9
    /\ \A i \in 1..Len(Unsigned(text)) : Char(Unsigned(text), i) \in Digits

DecimalIntegerValue(text) ==
    IF Char(text, 1) = "-" THEN -DigitsValue(Unsigned(text)) ELSE DigitsValue(Unsigned(text))

(***************************************************************************)
(* C8: for the return primitive i32 and any meaning, present or absent, a  *)
(* reply whose trimmed text is an integer n decodes to n by the direct     *)
(* parse: no extraction function, of a meaning or generic, is called.      *)
(***************************************************************************)
C8_IntegerDirectParse ==
    (/\ pc = "decoded"
     /\ call_return_type = "i32"
     /\ IsDecimalInteger(trim(call_content))) =>
        /\ prompt_result = Number(Finite(DecimalIntegerValue(trim(call_content)), 0))
        /\ decoded_via = "direct parse"

\* " 42 " with a meaning that has an extraction function
C8_Witness ==
    /\ pc = "decoded"
    /\ call_return_type = "i32"
    /\ call_content = " 42 "
    /\ call_meaning = Some("population this year")
    /\ prompt_result = Number(Finite(42, 0))
    /\ decoded_via = "direct parse"

(***************************************************************************)
(* The calls the claims on meanings are about: the return primitive and a  *)
(* meaning of the table with that primitive                                *)
(***************************************************************************)
DecodedWithMeaningOf(rust_type) ==
    /\ pc = "decoded"
    /\ call_return_type = rust_type
    /\ call_meaning # None
    /\ call_meaning[1] \in DOMAIN semantic_meanings
    /\ semantic_meanings[call_meaning[1]][1] = rust_type

MeaningExtractionFunction ==
    extraction_function_name(semantic_meanings[call_meaning[1]][1],
                             semantic_meanings[call_meaning[1]][2])

(***************************************************************************)
(* C9 as stated: with a meaning containing "available" the reply           *)
(* "Yes, it's in stock" decodes to true, and the value is produced by the  *)
(* extraction function written for the meaning.  Violated: the value is    *)
(* produced by the direct test of parse_boolean_semantic.                  *)
(***************************************************************************)
C9_AvailabilityExtractor ==
    (/\ DecodedWithMeaningOf("bool")
     /\ Contains(call_meaning[1], "available")
     /\ call_content = "Yes, it's in stock") =>
        /\ prompt_result = Boolean(TRUE)
        /\ decoded_via = MeaningExtractionFunction

(***************************************************************************)
(* C9 as amended: with a meaning containing "available" the reply          *)
(* "Yes, it's in stock" decodes to true, and the value is produced by the  *)
(* direct test of the boolean parser for "true" or "yes"; the extraction   *)
(* function of the meaning is reached only by a reply whose lower-cased    *)
(* form contains none of "true", "yes", "false" and "no", and gives true   *)
(* exactly when that form contains a word of the availability list.        *)
(***************************************************************************)
C9_AvailabilityDirectTest ==
    (DecodedWithMeaningOf("bool") /\ Contains(call_meaning[1], "available")) =>
        /\ call_content = "Yes, it's in stock" =>
               prompt_result = Boolean(TRUE) /\ decoded_via = "direct parse"
        /\ decoded_via = MeaningExtractionFunction <=>
               \A word \in {"true", "yes", "false", "no"} :
                   ~Contains(to_lowercase(call_content), word)
        /\ decoded_via = MeaningExtractionFunction =>
               prompt_result =
                   Boolean(\E word \in {"available", "in stock", "ready", "open"} :
                               Contains(to_lowercase(call_content), word))

C9_Witness ==
    /\ DecodedWithMeaningOf("bool")
    /\ call_meaning = Some("product available")
    /\ call_content = "Yes, it's in stock"
    /\ prompt_result = Boolean(TRUE)
    /\ decoded_via = "direct parse"

(***************************************************************************)
(* The keywords generate_integer_extraction_function looks for             *)
(***************************************************************************)
ContainsAny(text, words) == \E word \in words : Contains(text, word)

IntegerKeywords ==
    {"books", "count", "number", "year", "age", "founded", "established", "population"}

(***************************************************************************)
(* C10 as stated: the extraction function of any integer meaning that      *)
(* contains "population" returns 67 on "approximately 67 million", and     *)
(* that of an integer meaning with no keyword returns 0 on                 *)
(* "no numbers here".  Violated: for the meaning "population this year"    *)
(* the function looks for a year and returns 0.                            *)
(***************************************************************************)
C10_PopulationExtraction ==
    DecodedWithMeaningOf("i32") =>
        /\ (Contains(call_meaning[1], "population")
            /\ call_content = "approximately 67 million") =>
               /\ prompt_result = Number(Finite(67, 0))
               /\ decoded_via = MeaningExtractionFunction
        /\ (~ContainsAny(call_meaning[1], IntegerKeywords)
            /\ call_content = "no numbers here") =>
               /\ prompt_result = Number(Finite(0, 0))
               /\ decoded_via = MeaningExtractionFunction

(***************************************************************************)
(* C10 as amended: the extraction function of an integer meaning that      *)
(* contains "population" returns 67 on "approximately 67 million", except  *)
(* that it returns 0 when the meaning contains "year", "founded" or        *)
(* "established" and none of "books", "count", "number" and "age" (the     *)
(* function then looks for a number from 1000 to 2100); that of an         *)
(* integer meaning with no keyword returns 0 on "no numbers here".         *)
(***************************************************************************)
C10_PopulationExtractionByBranch ==
    DecodedWithMeaningOf("i32") =>
        /\ (Contains(call_meaning[1], "population")
            /\ call_content = "approximately 67 million") =>
               /\ prompt_result =
                      IF /\ ContainsAny(call_meaning[1], {"year", "founded", "established"})
                         /\ ~ContainsAny(call_meaning[1], {"books", "count", "number", "age"})
                      THEN Number(Finite(0, 0))
                      ELSE Number(Finite(67, 0))
               /\ decoded_via = MeaningExtractionFunction
        /\ (~ContainsAny(call_meaning[1], IntegerKeywords)
            /\ call_content = "no numbers here") =>
               /\ prompt_result = Number(Finite(0, 0))
               /\ decoded_via = MeaningExtractionFunction

\* the meaning "population this year": the function looks for a year
C10_Witness ==
    /\ DecodedWithMeaningOf("i32")
    /\ call_meaning = Some("population this year")
    /\ call_content = "approximately 67 million"
    /\ prompt_result = Number(Finite(0, 0))

(***************************************************************************)
(* Identifiers: lower-case alphanumeric tokens joined by single            *)
(* underscores                                                             *)
(***************************************************************************)
IsIdentifierToken(token) ==
    /\ Len(token) > 0
    /\ \A i \in 1..Len(token) : IsLower(Char(token, i)) \/ Char(token, i) \in Digits

TokensOf(name) == SplitOn(name, {"_"})

\* the meanings collected: the generator is past collect_semantic_meanings
MeaningsCollected == pc \in {"type_pass", "declaration_pass", "generated"}

(***************************************************************************)
(* C11: the normalized identifier of every meaning text is non-empty, is   *)
(* made of lower-case alphanumeric tokens joined by single underscores and *)
(* has none of the stop words a, an, the, of, in as a token.  Violated:    *)
(* the meanings "the", "a " and "" normalize to the empty identifier.      *)
(***************************************************************************)
C11_NormalizedIdentifier ==
    MeaningsCollected =>
        \A meaning \in DOMAIN semantic_meanings :
            /\ semantic_meanings[meaning][2] # ""
            /\ \A i \in 1..Len(TokensOf(semantic_meanings[meaning][2])) :
                   /\ IsIdentifierToken(TokensOf(semantic_meanings[meaning][2])[i])
                   /\ TokensOf(semantic_meanings[meaning][2])[i] \notin StopWords

(***************************************************************************)
(* The functions of the written headers: the positions of their `fn` lines *)
(***************************************************************************)
HeaderFunctions ==
    {i \in 1..Len(output) : output[i].indent = 0 /\ output[i].text = "fn"}

\* the extraction functions written for the meaning: their comment lines
ExtractionFunctionsOf(meaning) ==
    {i \in 1..Len(output) :
        /\ output[i].text = "// Extract for semantic meaning:"
        /\ output[i].args[1] = meaning}

\* the match arms written for the meaning
MatchArmsOf(meaning) ==
    {i \in 1..Len(output) : output[i].text = "Some(" /\ output[i].args[1] = meaning}

(***************************************************************************)
(* C12: the extraction functions written for distinct meaning texts of one *)
(* program have distinct names.  Violated: for                             *)
(* type Kind = Meaning<Int>("the count"); type Other = Meaning<Int>("count") *)
(* (or Meaning<Float>("count")) the function extract_count_value is        *)
(* written twice.                                                          *)
(***************************************************************************)
C12_DistinctExtractionNames ==
    MeaningsCollected =>
        /\ \A i, j \in HeaderFunctions : i # j => output[i].args # output[j].args
        /\ \A first, second \in DOMAIN semantic_meanings :
               first # second =>
                   \A i \in ExtractionFunctionsOf(first), j \in ExtractionFunctionsOf(second) :
                       output[i - 1].args # output[j - 1].args

(***************************************************************************)
(* The meaning texts of the meaning-annotated type declarations of the     *)
(* program                                                                 *)
(***************************************************************************)
DeclaredMeanings ==
    {get_string(ast.children[i].children[1], "meaning")[1] :
        i \in {k \in 1..Len(ast.children) :
                   /\ ast.children[k].node_type = "TypeDecl"
                   /\ ast.children[k].children # <<>>
                   /\ ast.children[k].children[1].node_type = "MeaningType"}}

(***************************************************************************)
(* C13: the meaning table has exactly one entry per distinct meaning text  *)
(* of the meaning-annotated type declarations, and exactly one extraction  *)
(* function and one match arm are written for each.  Violated: for         *)
(* type Census = Meaning<Population>("census of the year") the entry has   *)
(* the base type "Population", for which no parser gets a match arm.       *)
(***************************************************************************)
C13_OneEntryPerMeaning ==
    MeaningsCollected =>
        /\ DOMAIN semantic_meanings = DeclaredMeanings
        /\ \A meaning \in DeclaredMeanings :
               /\ Cardinality(ExtractionFunctionsOf(meaning)) = 1
               /\ Cardinality(MatchArmsOf(meaning)) = 1

(***************************************************************************)
(* The top-level declarations of a valid source, read off its tokens: a    *)
(* declaration keyword outside every pair of braces begins one             *)
(***************************************************************************)
DeclarationKindOf(token) ==
    CASE token.token_type = "Fn" -> <<"FunctionDecl">>
      [] token.token_type = "Type" -> <<"TypeDecl">>
      [] token.token_type = "Class" -> <<"ClassDecl">>
      [] token.token_type = "Import" -> <<"Import">>
      [] OTHER -> <<>>

RECURSIVE SourceDeclarationKinds(_, _, _)
SourceDeclarationKinds(source, i, depth) ==
    IF i > Len(source) THEN <<>>
    ELSE (IF depth = 0 THEN DeclarationKindOf(source[i]) ELSE <<>>)
         \o SourceDeclarationKinds(source, i + 1,
                                   CASE source[i].token_type = "LeftBrace" -> depth + 1
                                     [] source[i].token_type = "RightBrace" -> depth - 1
                                     [] OTHER -> depth)

ChildKinds(node) == [i \in 1..Len(node.children) |-> node.children[i].node_type]

(***************************************************************************)
(* C14: for a valid program the children of the Program node are the       *)
(* top-level declarations of the source, one node each, in source order;   *)
(* no failure is logged.                                                   *)
(***************************************************************************)
C14_ChildrenInSourceOrder ==
    (pc = "parsed" /\ family = "valid") =>
        /\ ChildKinds(program) = SourceDeclarationKinds(tokens, 1, 0)
        /\ parse_errors = 0

\* one type declaration and two functions: TypeDecl, FunctionDecl, FunctionDecl
C14_Witness ==
    /\ pc = "parsed"
    /\ family = "valid"
    /\ tokens = WorkflowProgram
    /\ ChildKinds(program) = <<"TypeDecl", "FunctionDecl", "FunctionDecl">>

(***************************************************************************)
(* Parser::tokenize as a state machine: one step per round of its          *)
(* `while let Some((pos, ch)) = chars.next()` loop, one action per arm of  *)
(* the match.  The tokens are built in `tokens` and carry their line and   *)
(* column.                                                                 *)
(***************************************************************************)
LexToken(token_type, value) ==
    [token_type |-> token_type, value |-> value, line |-> line, column |-> column]

Blanks == {" ", "\t", "\r"}

SymbolType(ch) ==
    CASE ch = "(" -> "LeftParen" [] ch = ")" -> "RightParen"
      [] ch = "{" -> "LeftBrace" [] ch = "}" -> "RightBrace"
      [] ch = "<" -> "LeftAngle" [] ch = ">" -> "RightAngle"
      [] ch = ";" -> "Semicolon" [] ch = ":" -> "Colon"
      [] ch = "=" -> "Equals" [] ch = "," -> "Comma"

Symbols == {"(", ")", "{", "}", "<", ">", ";", ":", "=", ","}

\* the match on the identifier
WordType(identifier) ==
    CASE identifier = "fn" -> "Fn" [] identifier = "type" -> "Type"
      [] identifier = "class" -> "Class" [] identifier = "import" -> "Import"
      [] identifier = "let" -> "Let" [] identifier = "return" -> "Return"
      [] identifier = "prompt" -> "Prompt" [] identifier = "Meaning" -> "Meaning"
      [] identifier \in {"true", "false"} -> "BoolLit"
      [] OTHER -> "Identifier"

\* the character the loop took with chars.next()
ch == Char(input, chars)

\* chars.peek() is this character
peek_is(text, i, c) == i <= Len(text) /\ Char(text, i) = c

\* the position after the characters from i on that the inner loop takes
RECURSIVE take_while(_, _, _)
take_while(text, i, keep) ==
    IF i <= Len(text) /\ Char(text, i) \in keep THEN take_while(text, i + 1, keep) ELSE i

\* the string loop: the position of the closing quote, or past the end
RECURSIVE closing_quote(_, _)
closing_quote(text, i) ==
    IF i > Len(text) \/ Char(text, i) = "\"" THEN i ELSE closing_quote(text, i + 1)

\* the number loop: digits, and one `.` while is_float is false
number_end(text, i) ==
    IF peek_is(text, take_while(text, i, Digits), ".")
    THEN take_while(text, take_while(text, i, Digits) + 1, Digits)
    ELSE take_while(text, i, Digits)

WordStart == {Char(UpperLetters, i) : i \in 1..26} \cup {Char(LowerLetters, i) : i \in 1..26}
             \cup {"_"}

\* the rest of a round: the token is pushed, the characters to `next` are
\* taken, and `column += 1` ends the round
push_token(token_type, value, next) ==
    /\ tokens' = Append(tokens, LexToken(token_type, value))
    /\ chars' = next
    /\ column' = column + 1
    /\ UNCHANGED <<pc, input, line>>

Tokenizing == pc = "tokenize" /\ chars <= Len(input)

LexBlank ==
    /\ Tokenizing
    /\ ch \in Blanks
    /\ column' = column + 2
    /\ chars' = chars + 1
    /\ UNCHANGED <<pc, input, line, tokens>>
    /\ UNCHANGED <<current, program, parse_errors, family, reference, generator_vars,
                   runtime_vars>>

LexNewline ==
    /\ Tokenizing
    /\ ch = "\n"
    /\ line' = line + 1
    /\ column' = 2
    /\ chars' = chars + 1
    /\ UNCHANGED <<pc, input, tokens>>
    /\ UNCHANGED <<current, program, parse_errors, family, reference, generator_vars,
                   runtime_vars>>

LexSymbol ==
    /\ Tokenizing
    /\ ch \in Symbols
    /\ push_token(SymbolType(ch), ch, chars + 1)
    /\ UNCHANGED <<current, program, parse_errors, family, reference, generator_vars,
                   runtime_vars>>

\* '"': the characters to the closing quote, or to the end of the input
LexString ==
    /\ Tokenizing
    /\ ch = "\""
    /\ push_token("StringLit",
                  SubSeq(input, chars + 1, closing_quote(input, chars + 1) - 1),
                  closing_quote(input, chars + 1) + 1)
    /\ UNCHANGED <<current, program, parse_errors, family, reference, generator_vars,
                   runtime_vars>>

\* '-' if chars.peek() == Some(&(pos + 1, '>'))
LexArrow ==
    /\ Tokenizing
    /\ ch = "-"
    /\ peek_is(input, chars + 1, ">")
    /\ push_token("Arrow", "->", chars + 2)
    /\ UNCHANGED <<current, program, parse_errors, family, reference, generator_vars,
                   runtime_vars>>

word_token(identifier, next) == push_token(WordType(identifier), identifier, next)

\* c if c.is_alphabetic() || c == '_'
LexWord ==
    /\ Tokenizing
    /\ ch \in WordStart
    /\ word_token(SubSeq(input, chars,
                         take_while(input, chars + 1, WordStart \cup Digits) - 1),
                  take_while(input, chars + 1, WordStart \cup Digits))
    /\ UNCHANGED <<current, program, parse_errors, family, reference, generator_vars,
                   runtime_vars>>

number_token(number, next) ==
    push_token(IF Contains(number, ".") THEN "FloatLit" ELSE "IntLit", number, next)

\* c if c.is_ascii_digit()
LexNumber ==
    /\ Tokenizing
    /\ ch \in Digits
    /\ number_token(SubSeq(input, chars, number_end(input, chars + 1) - 1),
                    number_end(input, chars + 1))
    /\ UNCHANGED <<current, program, parse_errors, family, reference, generator_vars,
                   runtime_vars>>

\* the character at i falls through to the `_` arm of the match
unknown_character(text, i) ==
    /\ Char(text, i) \notin Blanks \cup {"\n", "\""} \cup Symbols \cup WordStart \cup Digits
    /\ ~(Char(text, i) = "-" /\ peek_is(text, i + 1, ">"))

\* an unknown character pushed as a token of type Error
LexUnknown_ErrorToken ==
    /\ Tokenizing
    /\ unknown_character(input, chars)
    /\ push_token("Error", ch, chars + 1)
    /\ UNCHANGED <<current, program, parse_errors, family, reference, generator_vars,
                   runtime_vars>>

\* _ => { /* Skip unknown characters for now */ }
LexUnknown ==
    /\ Tokenizing
    /\ unknown_character(input, chars)
    /\ chars' = chars + 1
    /\ column' = column + 1
    /\ UNCHANGED <<pc, input, line, tokens>>
    /\ UNCHANGED <<current, program, parse_errors, family, reference, generator_vars,
                   runtime_vars>>

\* the loop is left: the Eof token is pushed and Ok(tokens) returned
LexEnd ==
    /\ pc = "tokenize"
    /\ chars > Len(input)
    /\ tokens' = Append(tokens, LexToken("Eof", ""))
    /\ pc' = "tokenized"
    /\ UNCHANGED <<current, program, parse_errors, family, reference, generator_vars,
                   runtime_vars, lexer_vars>>

MaxInputLen == 3

InputAlphabet == {" ", "\n", ";", "\"", "-", ">", "a", "1", ".", "@"}

RECURSIVE InputTexts(_)
InputTexts(k) ==
    IF k = 0 THEN {""}
    ELSE InputTexts(k - 1)
         \cup {text \o c : text \in {t \in InputTexts(k - 1) : Len(t) = k - 1},
                           c \in InputAlphabet}

\* source texts with every kind of token, an unterminated string and
\* unknown characters
FixedInputs ==
    {"fn f(p: String, q: Int) -> Int { prompt \"a {p}\"; }",
     "type T = Meaning<Int>(\"x\");\n\tlet y = true\r\n",
     "class import return false _a1 Meaning",
     "a@\"b", "1.5.2", "x - 1. # \"unterminated"}

InitLex ==
    /\ pc = "tokenize"
    /\ input \in InputTexts(MaxInputLen) \cup FixedInputs
    /\ chars = 1
    /\ line = 1
    /\ column = 1
    /\ tokens = <<>>
    /\ current = 0
    /\ program = AstNode("Program")
    /\ parse_errors = 0
    /\ family = "lex"
    /\ reference = <<>>
    /\ GeneratorUnused
    /\ RuntimeUnused

NextLex ==
    \/ LexBlank
    \/ LexNewline
    \/ LexSymbol
    \/ LexString
    \/ LexArrow
    \/ LexWord
    \/ LexNumber
    \/ LexUnknown
    \/ LexEnd

\* the loop runs until the input is used up
SpecLex == InitLex /\ [][NextLex]_vars /\ WF_vars(NextLex)

TokenTypes(toks) == [i \in 1..Len(toks) |-> toks[i].token_type]

EofLastAndOnly(toks) ==
    /\ Len(toks) >= 1
    /\ \A i \in 1..Len(toks) : toks[i].token_type = "Eof" <=> i = Len(toks)

\* C15: for every input text, unknown characters and an unterminated
\* string included, the lexer returns, and the token sequence it returns
\* ends with Eof and holds no other Eof; a round of the loop on a character
\* the lexer does not recognize adds no token.
C15_LexerTotalEofLast ==
    /\ <>(pc = "tokenized")
    /\ [](pc = "tokenized" => EofLastAndOnly(tokens))
    /\ [][pc = "tokenize" /\ chars <= Len(input) /\ unknown_character(input, chars)
            => tokens' = tokens /\ chars' = chars + 1]_vars

C15_Witness ==
    /\ pc = "tokenized"
    /\ input = "x - 1. # \"unterminated"
    /\ TokenTypes(tokens) = <<"Identifier", "FloatLit", "StringLit", "Eof">>
    /\ tokens[3].value = "unterminated"

\* the pub type lines of the output, in order: <<name, aliased type>>
RECURSIVE AliasLines(_)
AliasLines(lines) ==
    IF lines = <<>> THEN <<>>
    ELSE (IF Head(lines).text = "pub type" THEN <<Head(lines).args>> ELSE <<>>)
         \o AliasLines(Tail(lines))

\* the written base type of a declaration, seen through its Meaning wrapper
RECURSIVE WrittenBase(_)
WrittenBase(type_node) ==
    IF type_node.node_type = "MeaningType" THEN WrittenBase(type_node.children[1])
    ELSE get_string(type_node, "type")[1]

\* the primitive a written base type stands for: a built-in type is its
\* primitive, an alias the primitive of its declaration
PrimitiveOf(node, base) ==
    IF DeclaredPrimitive(node, base, Len(node.children)) # None
    THEN DeclaredPrimitive(node, base, Len(node.children))[1]
    ELSE base

RECURSIVE ExpectedAliases(_, _)
ExpectedAliases(node, i) ==
    IF i > Len(node.children) THEN <<>>
    ELSE (IF node.children[i].node_type = "TypeDecl"
          THEN <<<<get_string(node.children[i], "name")[1],
                   PrimitiveOf(node, WrittenBase(node.children[i].children[1]))>>>>
          ELSE <<>>)
         \o ExpectedAliases(node, i + 1)

TypePassDone == pc \in {"declaration_pass", "generated"}

(***************************************************************************)
(* C16: once the first pass is over the output holds, for the TypeDecl     *)
(* children of the AST in source order, exactly one line                   *)
(* `pub type <name> = <primitive>;` each, <primitive> being the primitive  *)
(* the base type stands for, seen through the Meaning wrapper.  Violated:  *)
(* for type Total = Count; with Count an alias of Int the line is          *)
(* `pub type Total = Count;`.                                              *)
(***************************************************************************)
C16_OneAliasPerTypeDecl ==
    TypePassDone => AliasLines(output) = ExpectedAliases(ast, 1)

\* the type a parameter is to be written with: the primitive of the type
\* inside an inline Meaning<..>(".."), the name of an alias, the primitive
\* of a built-in type
ExpectedParameterType(node, type_node) ==
    IF type_node.node_type = "MeaningType"
    THEN PrimitiveOf(node, WrittenBase(type_node))
    ELSE map_to_rust_type(get_string(type_node, "type")[1])

RECURSIVE ExpectedParameters(_, _, _)
ExpectedParameters(node, params, i) ==
    IF i > Len(params) THEN <<>>
    ELSE <<get_string(params[i], "name")[1] \o ": "
             \o ExpectedParameterType(node, params[i].children[1])>>
         \o ExpectedParameters(node, params, i + 1)

\* the parameters of a function declaration of the parser: its first child
DeclaredParameters(func) ==
    IF func.children # <<>> /\ func.children[1].node_type = "ParamList"
    THEN func.children[1].children
    ELSE <<>>

(***************************************************************************)
(* C17: the signature written for a function lists its parameters in       *)
(* declared order, each with the primitive of T for an inline              *)
(* Meaning<T>(".."), the alias name for an alias and the primitive for a   *)
(* built-in type.  Violated: t: Meaning<Population>("people") with         *)
(* Population an alias of Int is written as `t: Population`.               *)
(***************************************************************************)
C17_ParameterTypes ==
    FunctionJustGenerated =>
        output[LastFunctionLine].args[2]
            = ExpectedParameters(ast, DeclaredParameters(ast.children[child_index - 1]), 1)

\* a prompt statement among the statements, at any depth of nested blocks
RECURSIVE HasPromptStatement(_)
HasPromptStatement(stmts) ==
    \E i \in 1..Len(stmts) :
        \/ stmts[i].node_type = "PromptBlock"
        \/ stmts[i].node_type = "Block" /\ HasPromptStatement(stmts[i].children)

\* the declaration the pass is about to generate
NextDeclaration == ast.children[child_index]

GeneratingDeclaration ==
    /\ child_index >= 1
    /\ child_index <= Len(ast.children)
    /\ \/ pc = "type_pass" /\ NextDeclaration.node_type = "TypeDecl"
       \/ pc = "declaration_pass" /\ NextDeclaration.node_type \in {"FunctionDecl", "ClassDecl"}

(***************************************************************************)
(* C18: when the declaration to generate lacks its name, or is a function  *)
(* whose body holds no prompt statement, the step of generate returns an   *)
(* error and writes nothing.  Violated: fn plain() { let x = 1.50; ..      *)
(* return x; } is written out and generation goes on.                      *)
(***************************************************************************)
C18_ErrorInsteadOfFunction ==
    [][(/\ GeneratingDeclaration
        /\ \/ get_string(NextDeclaration, "name") = None
           \/ /\ NextDeclaration.node_type = "FunctionDecl"
              /\ ~HasPromptStatement(body_statements(NextDeclaration)))
       => (pc' = "generate_failed" /\ output' = output)]_vars

(***************************************************************************)
(* C19: generation is all-or-nothing: when generate has returned an error  *)
(* the output holds nothing of the generated source.  Violated: the        *)
(* headers and the text of the declarations before the failing one stay in *)
(* the file generate created.                                              *)
(***************************************************************************)
C19_AllOrNothing ==
    pc = "generate_failed" => output = <<>>

\* the token types that begin a new declaration or statement
BeginKeywords == {"Fn", "Class", "Let", "Return"}

\* the types of the tokens consumed when the cursor goes from `from` to `to`
ConsumedTypes(toks, from, to) == [i \in 1..(to - from) |-> toks[from + i].token_type]

NoneOf(types, seq) == \A i \in 1..Len(seq) : seq[i] \notin types

\* resynchronization from the failure point `from` has stopped at `to` as
\* claimed: no begin keyword was consumed, and the cursor is right behind
\* the first semicolon, or on a begin keyword, or at the end of input
StoppedAsClaimed(toks, from, to) ==
    /\ to >= from
    /\ NoneOf(BeginKeywords, ConsumedTypes(toks, from, to))
    /\ \/ /\ to > from
          /\ toks[to].token_type = "Semicolon"
          /\ NoneOf({"Semicolon"}, ConsumedTypes(toks, from, to - 1))
       \/ /\ toks[to + 1].token_type \in BeginKeywords
          /\ NoneOf({"Semicolon"}, ConsumedTypes(toks, from, to))
       \/ /\ toks[to + 1].token_type = "Eof"
          /\ NoneOf({"Semicolon"}, ConsumedTypes(toks, from, to))

\* the cursor at which the declaration under the cursor fails
FailurePoint == parse_declaration(tokens, current).cur

StoppedAfterFailureToken(toks, from, to) ==
    /\ to >= from
    /\ toks[from + 1].token_type # "Eof" => to > from
    /\ NoneOf(BeginKeywords, ConsumedTypes(toks, from + 1, to))
    /\ \/ /\ to > from
          /\ toks[to].token_type = "Semicolon"
          /\ NoneOf({"Semicolon"}, ConsumedTypes(toks, from, to - 1))
       \/ /\ to > from
          /\ toks[to + 1].token_type \in BeginKeywords
          /\ NoneOf({"Semicolon"}, ConsumedTypes(toks, from, to))
       \/ /\ toks[to + 1].token_type = "Eof"
          /\ NoneOf({"Semicolon"}, ConsumedTypes(toks, from, to))

IntegerCategories ==
    <<{"books", "count", "number"}, {"year", "age", "founded", "established"},
      {"population"}>>

\* the earliest category with a keyword in the meaning, 4 (generic) if none
EarliestCategory(meaning) ==
    IF \E i \in 1..3 : ContainsAny(meaning, IntegerCategories[i])
    THEN CHOOSE i \in 1..3 :
             /\ ContainsAny(meaning, IntegerCategories[i])
             /\ \A j \in 1..(i - 1) : ~ContainsAny(meaning, IntegerCategories[j])
    ELSE 4

AcceptedRange(meaning) == IF Contains(meaning, "age") THEN 1..149 ELSE 1000..2100

\* the values of the digits of the words of a reply
DigitValues(text) ==
    {ParseI32(FilterChars(split_whitespace(text)[i], Digits))[1] :
        i \in {j \in 1..Len(split_whitespace(text)) :
                 ParseI32(FilterChars(split_whitespace(text)[j], Digits)) # None}}

CategoryBody(meaning) ==
    CASE EarliestCategory(meaning) = 1 -> "first_word_that_parses"
      [] EarliestCategory(meaning) = 2 ->
            (IF Contains(meaning, "age") THEN "digits_in_1_to_149"
             ELSE "digits_in_1000_to_2100")
      [] EarliestCategory(meaning) = 3 -> "first_digits_and_dots_as_f64"
      [] OTHER -> "extract_generic_number"

ExtractedInteger ==
    /\ DecodedWithMeaningOf("i32")
    /\ decoded_via = MeaningExtractionFunction

(***************************************************************************)
(* C21: the value the extraction function of an integer meaning returns is *)
(* that of the body of the earliest category with a keyword in the         *)
(* meaning, books/count/number, then year/age/founded/established, then    *)
(* population, then generic; in the year/age category the value is a       *)
(* number of the reply from 1 to 149 when the meaning contains "age" and   *)
(* from 1000 to 2100 otherwise, and 0 exactly when the reply has none.     *)
(***************************************************************************)
C21_FirstMatchWins ==
    ExtractedInteger =>
        /\ prompt_result =
               Number(I32AsF64(integer_extraction(CategoryBody(call_meaning[1]),
                                                  call_content)))
        /\ EarliestCategory(call_meaning[1]) = 2 =>
               IF DigitValues(call_content) \cap AcceptedRange(call_meaning[1]) = {}
               THEN prompt_result = Number(I32AsF64(0))
               ELSE \E value \in DigitValues(call_content)
                                   \cap AcceptedRange(call_meaning[1]) :
                        prompt_result = Number(I32AsF64(value))

\* "village population" holds "age": of 150 and 149 the function takes 149
C21_Witness ==
    /\ ExtractedInteger
    /\ call_meaning = Some("village population")
    /\ call_content = "aged 150 or 149"
    /\ prompt_result = Number(I32AsF64(149))

(***************************************************************************)
(* Placeholders of a template, read off the text: a "{" opens a            *)
(* placeholder unless it lies inside one, that is unless the brace before  *)
(* it is a "{"; the placeholder runs to the next "}"                        *)
(***************************************************************************)
Braces == {"{", "}"}

OpensPlaceholder(template, i) ==
    /\ Char(template, i) = "{"
    /\ \A k \in 1..(i - 1) :
           Char(template, k) = "{" => \E j \in (k + 1)..(i - 1) : Char(template, j) = "}"

HasNextClose(template, i) == \E j \in (i + 1)..Len(template) : Char(template, j) = "}"

NextClose(template, i) ==
    CHOOSE j \in (i + 1)..Len(template) :
        /\ Char(template, j) = "}"
        /\ \A k \in (i + 1)..(j - 1) : Char(template, k) # "}"

RECURSIVE Placeholders(_, _)
Placeholders(template, i) ==
    IF i > Len(template) THEN <<>>
    ELSE (IF /\ OpensPlaceholder(template, i)
             /\ HasNextClose(template, i)
             /\ NextClose(template, i) > i + 1
          THEN <<SubSeq(template, i + 1, NextClose(template, i) - 1)>>
          ELSE <<>>)
         \o Placeholders(template, i + 1)

\* the variables inserted by the lines written from line i on
RECURSIVE InsertedVariables(_, _)
InsertedVariables(lines, i) ==
    IF i > Len(lines) THEN <<>>
    ELSE (IF lines[i].text = "variables.insert(" THEN <<lines[i].args[1]>> ELSE <<>>)
         \o InsertedVariables(lines, i + 1)

\* the function just generated is a prompt function of one statement
PromptFunctionJustGenerated ==
    /\ FunctionJustGenerated
    /\ Len(body_statements(ast.children[child_index - 1])) = 1
    /\ body_statements(ast.children[child_index - 1])[1].node_type = "PromptBlock"

LastTemplate == get_string(body_statements(ast.children[child_index - 1])[1], "template")[1]

MeaningDeclarationsOf(node, meaning) ==
    {i \in 1..Len(node.children) :
        /\ node.children[i].node_type = "TypeDecl"
        /\ node.children[i].children[1].node_type = "MeaningType"
        /\ get_string(node.children[i].children[1], "meaning") = Some(meaning)}

First(indices) == CHOOSE i \in indices : \A j \in indices : i <= j

Last(indices) == CHOOSE i \in indices : \A j \in indices : i >= j

\* the base type written in the i-th declaration, as a type of the target
WrittenType(node, i) == map_to_rust_type(WrittenBase(node.children[i].children[1]))

(***************************************************************************)
(* C23: once the first pass is over, the alias table maps every name to    *)
(* the type of the first declaration of that name in source order, and the *)
(* semantic table gives every meaning the base type of the first           *)
(* declaration carrying it.  Violated: with type Count = Int;              *)
(* type Count = Float; the entry of Count is f64.                          *)
(***************************************************************************)
C23_FirstDeclarationWins ==
    TypePassDone =>
        /\ \A name \in DOMAIN type_aliases :
               type_aliases[name] = WrittenType(ast, First(TypeDeclarationsOf(ast, name)))
        /\ \A meaning \in DOMAIN semantic_meanings :
               semantic_meanings[meaning][1]
                   = WrittenType(ast, First(MeaningDeclarationsOf(ast, meaning)))

\* the text before the first period
UpToFirstPeriod(text) ==
    SubSeq(text, 1, (CHOOSE i \in 1..Len(text) :
                         Char(text, i) = "." /\ \A j \in 1..(i - 1) : Char(text, j) # ".") - 1)

ExtractedSummary ==
    /\ DecodedWithMeaningOf("String")
    /\ string_extraction_body(call_meaning[1]) = "first_sentence_or_100"
    /\ decoded_via = MeaningExtractionFunction

(***************************************************************************)
(* C24: the extraction function of a summary meaning returns the text up   *)
(* to the first period of a reply that has one, and of a reply without a   *)
(* period and longer than 100 characters its first 97 characters followed  *)
(* by "...".  Violated: the reply of 104 characters without a period is    *)
(* returned in full.                                                       *)
(***************************************************************************)
C24_SummaryExtraction ==
    ExtractedSummary =>
        IF Contains(call_content, ".")
        THEN prompt_result = String(trim(UpToFirstPeriod(call_content)))
        ELSE Len(call_content) > 100 =>
                 prompt_result = String(SubSeq(call_content, 1, 97) \o "...")

\* generate_struct_declaration has just written the class before child_index
StructJustGenerated ==
    /\ pc = "declaration_pass"
    /\ child_index > 1
    /\ ast.children[child_index - 1].node_type = "ClassDecl"

LastStructLine ==
    CHOOSE i \in 1..Len(output) :
        /\ output[i].text = "pub struct"
        /\ \A j \in (i + 1)..Len(output) : output[j].text # "pub struct"

\* the methods of a class
Methods(class) ==
    SelectSeq(class.children, LAMBDA child : child.node_type = "FunctionDecl")

\* the lines with the given text written for the class
LastStructLines(text) ==
    {output[i] : i \in {j \in (LastStructLine + 1)..Len(output) : output[j].text = text}}

(***************************************************************************)
(* C25: the decode call written for the prompt of a method receives the    *)
(* method's own effective meaning and return type, and the conversion      *)
(* written after it is that of the return type.  Violated: for             *)
(* class Shop { fn stock(p: String) -> Meaning<Int>("number of items")     *)
(* { prompt ..; } } the call is written with None and "String" and the     *)
(* conversion is that of a string.                                         *)
(***************************************************************************)
C25_MethodLikeFunction ==
    (StructJustGenerated /\ Len(Methods(ast.children[child_index - 1])) = 1) =>
        /\ \A call \in LastStructLines(ExecutePrompt) :
               call.args = <<EffectiveMeaning(ast, Methods(ast.children[child_index - 1])[1]),
                             determine_return_type(Methods(ast.children[child_index - 1])[1])>>
        /\ \A conv \in LastStructLines("return match prompt_result {") :
               conv.args = <<conversion_arm(
                                 resolve_type_alias(
                                     type_aliases,
                                     determine_return_type(
                                         Methods(ast.children[child_index - 1])[1])))>>

\* the second pass has begun: it is running, or a line of it is written
DeclarationLines == {i \in 1..Len(output) : output[i].text \in {"pub fn", "pub struct"}}

SecondPassBegun == pc = "declaration_pass" \/ DeclarationLines # {}

RECURSIVE TypeDeclNames(_, _)
TypeDeclNames(node, i) ==
    IF i > Len(node.children) THEN <<>>
    ELSE (IF node.children[i].node_type = "TypeDecl"
          THEN <<get_string(node.children[i], "name")[1]>>
          ELSE <<>>)
         \o TypeDeclNames(node, i + 1)

RECURSIVE AliasNames(_)
AliasNames(aliases) ==
    IF aliases = <<>> THEN <<>> ELSE <<Head(aliases)[1]>> \o AliasNames(Tail(aliases))

\* the type declarations that come after the child at i
LaterTypeDeclarations(node, i, name) == {j \in TypeDeclarationsOf(node, name) : j > i}

(***************************************************************************)
(* C26: once the second pass of generate has begun, every type declaration *)
(* of the program has been processed, whatever its place in the source:    *)
(* its alias line is written, in source order and before every line of a   *)
(* function or a class, and its name is in the alias table; a function     *)
(* whose return type is declared after it is converted through the alias   *)
(* table entry of that declaration.                                        *)
(***************************************************************************)
C26_TypesBeforeDeclarations ==
    SecondPassBegun =>
        /\ AliasNames(AliasLines(output)) = TypeDeclNames(ast, 1)
        /\ \A i \in 1..Len(ast.children) :
               ast.children[i].node_type = "TypeDecl" =>
                   get_string(ast.children[i], "name")[1] \in DOMAIN type_aliases
        /\ \A i \in 1..Len(output) : \A j \in DeclarationLines :
               output[i].text = "pub type" => i < j
        /\ (/\ FunctionJustGenerated
            /\ LaterTypeDeclarations(ast, child_index - 1,
                                     determine_return_type(ast.children[child_index - 1])) # {})
           => \A conv \in {output[i] : i \in {j \in (LastFunctionLine + 1)..Len(output) :
                               output[j].text = "return match prompt_result {"}} :
                  conv.args = <<conversion_arm(
                                    type_aliases[determine_return_type(
                                                     ast.children[child_index - 1])])>>

\* a function has been generated whose return type is declared after it
C26_Witness ==
    /\ FunctionJustGenerated
    /\ LaterTypeDeclarations(ast, child_index - 1,
                             determine_return_type(ast.children[child_index - 1])) # {}
    /\ \E i \in (LastFunctionLine + 1)..Len(output) :
           /\ output[i].text = "return match prompt_result {"
           /\ output[i].args # <<conversion_arm(determine_return_type(
                                                    ast.children[child_index - 1]))>>

(***************************************************************************)
(* Parser: the cursor.  parse_program tests is_at_end before every         *)
(* parse_declaration; inside a declaration (its productions, their         *)
(* recovery loops, and the Err arm of parse_program) the cursor is moved   *)
(* by calls of advance only: directly by parse_primary and synchronize,    *)
(* behind a successful check by consume, consume_identifier,               *)
(* consume_string_literal and match_token.  Here the calls come in any     *)
(* order, which covers every order the productions make them in.  advance  *)
(* returns self.previous(), that is &self.tokens[self.current - 1] on an   *)
(* unsigned cursor: evaluated at cursor 0 it panics.                       *)
(***************************************************************************)
MaxCursorTokens == 3

CursorTokens ==
    {Kw("Fn"), Kw("Let"), Kw("Semicolon"), Kw("LeftBrace"), Id("x"), Str("s")}

CursorStreams == UNION {[1..n -> CursorTokens] : n \in 0..MaxCursorTokens}

\* Parser::new: the tokens of the lexer (Eof last), current: 0
InitCursor ==
    /\ pc = "cursor_program"
    /\ LexerUnused
    /\ GeneratorUnused
    /\ RuntimeUnused
    /\ \E stream \in CursorStreams : tokens = stream \o <<EofToken>>
    /\ current = 0
    /\ program = AstNode("Program")
    /\ parse_errors = 0
    /\ family = "cursor"
    /\ reference = <<>>

\* where the parser is after previous() was evaluated at the cursor cur
after_previous(cur) == IF cur = 0 THEN "panicked" ELSE "cursor_declaration"

\* parse_declaration called whatever the next token is
CursorEnterDeclaration_AtEnd ==
    /\ pc = "cursor_program"
    /\ pc' = "cursor_declaration"
    /\ UNCHANGED <<parser_vars, generator_vars, runtime_vars, lexer_vars>>

\* while !self.is_at_end() { match self.parse_declaration() ..
CursorEnterDeclaration ==
    /\ pc = "cursor_program"
    /\ ~is_at_end(tokens, current)
    /\ pc' = "cursor_declaration"
    /\ UNCHANGED <<parser_vars, generator_vars, runtime_vars, lexer_vars>>

\* let token = self.advance().clone() of parse_primary
CursorAdvance ==
    /\ pc = "cursor_declaration"
    /\ current' = advance(tokens, current)
    /\ pc' = after_previous(current')
    /\ UNCHANGED <<tokens, program, parse_errors, family, reference,
                   generator_vars, runtime_vars, lexer_vars>>

\* consume, consume_identifier, consume_string_literal, match_token: advance
\* when the next token is the expected one, else the cursor stays
CursorConsume ==
    /\ pc = "cursor_declaration"
    /\ \E expected \in {t.token_type : t \in CursorTokens} :
           IF check(tokens, current, expected)
           THEN /\ current' = advance(tokens, current)
                /\ pc' = after_previous(current')
           ELSE UNCHANGED <<current, pc>>
    /\ UNCHANGED <<tokens, program, parse_errors, family, reference,
                   generator_vars, runtime_vars, lexer_vars>>

\* synchronize, from the Err arm of a recovery loop
CursorSynchronize ==
    /\ pc = "cursor_declaration"
    /\ pc' = after_previous(advance(tokens, current))
    /\ current' = IF advance(tokens, current) = 0 THEN current
                  ELSE synchronize(tokens, current)
    /\ UNCHANGED <<tokens, program, parse_errors, family, reference,
                   generator_vars, runtime_vars, lexer_vars>>

\* parse_declaration has returned and its result is handled
CursorDeclarationReturn ==
    /\ pc = "cursor_declaration"
    /\ pc' = "cursor_program"
    /\ UNCHANGED <<parser_vars, generator_vars, runtime_vars, lexer_vars>>

\* the loop of parse_program is left: Ok(program)
CursorProgramReturn ==
    /\ pc = "cursor_program"
    /\ is_at_end(tokens, current)
    /\ pc' = "cursor_parsed"
    /\ UNCHANGED <<parser_vars, generator_vars, runtime_vars, lexer_vars>>

NextCursor ==
    \/ CursorEnterDeclaration
    \/ CursorAdvance
    \/ CursorConsume
    \/ CursorSynchronize
    \/ CursorDeclarationReturn
    \/ CursorProgramReturn

SpecCursor == InitCursor /\ [][NextCursor]_vars

(***************************************************************************)
(* C27: over every sequence of parse operations on every token stream the  *)
(* cursor never decreases, is never past the index of the Eof token, and   *)
(* previous() is never evaluated while the cursor is 0.                    *)
(***************************************************************************)
C27_CursorMonotonicInBounds ==
    /\ [](current \in 0..(Len(tokens) - 1) /\ pc # "panicked")
    /\ [][current' >= current]_vars

\* inside a declaration with the cursor on Eof: advance and synchronize leave it there
C27_Witness ==
    /\ pc = "cursor_declaration"
    /\ current > 0
    /\ is_at_end(tokens, current)
    /\ advance(tokens, current) = current
    /\ synchronize(tokens, current) = current

\* the cursor after one iteration of the while loop of parse_block
parse_block_iteration(toks, cur) ==
    Match(parse_statement(toks, cur),
          LAMBDA stmt : stmt.cur,
          LAMBDA e : synchronize(toks, e.cur))

\* the cursor after one iteration of the while loop of parse_class_declaration
parse_class_declaration_iteration(toks, cur) ==
    Match(parse_class_member(toks, cur),
          LAMBDA member : member.cur,
          LAMBDA e : synchronize(toks, e.cur))

\* the loop test of parse_block and of parse_class_declaration
InMemberLoop(toks, cur) == ~check(toks, cur, "RightBrace") /\ ~is_at_end(toks, cur)

(***************************************************************************)
(* C28: parsing terminates on every token stream.  An iteration of the     *)
(* loop of parse_program moves the cursor forward; at every position of    *)
(* the stream where the loops of parse_block and parse_class_declaration   *)
(* go round, an iteration (a production, or a failing production and       *)
(* synchronize) leaves the cursor further on (the stream never changes:    *)
(* its positions are gone through once, before the first token is read);  *)
(* so parse_program has gone                                               *)
(* round at most as often as the cursor has moved, which is less often     *)
(* than the stream has tokens.                                             *)
(***************************************************************************)
C28_ParsingTerminates ==
    /\ [][(pc = "parse_program" /\ pc' = "parse_program") => current' > current]_vars
    /\ [](current = 0 =>
              \A cur \in 0..(Len(tokens) - 1) :
                  InMemberLoop(tokens, cur) =>
                      /\ parse_block_iteration(tokens, cur) > cur
                      /\ parse_class_declaration_iteration(tokens, cur) > cur)
    /\ [](/\ parse_errors + Len(program.children) <= current
          /\ current < Len(tokens))

\* parse_program has returned after more than one failing declaration, on a
\* stream with a place where a class member fails without consuming a token
C28_Witness ==
    /\ pc = "parsed"
    /\ parse_errors >= 2
    /\ \E cur \in 0..(Len(tokens) - 1) :
           /\ InMemberLoop(tokens, cur)
           /\ ~parse_class_member(tokens, cur).ok
           /\ parse_class_member(tokens, cur).cur = cur

(***************************************************************************)
(* C29: between the calls of generate_function (a call is one step) the    *)
(* stored context is empty, current_return_type and                        *)
(* current_semantic_meaning both None, and indent_level is 0; a step in    *)
(* which no call fails leaves indent_level as it was.  Violated: a call    *)
(* of generate_function that returns an error from its body (a prompt      *)
(* block without template, a failed write) leaves the return type and the  *)
(* meaning of its function stored and indent_level at 1.                   *)
(***************************************************************************)
C29_ContextScopedToFunction ==
    /\ [](/\ current_return_type = None
          /\ current_semantic_meaning = None
          /\ indent_level = 0)
    /\ [][pc' # "generate_failed" => indent_level' = indent_level]_vars

(***************************************************************************)
(* Runtime: format_prompt.  The loop `for (name, value) in variables` goes *)
(* through a HashMap, whose iteration order is unspecified: each round     *)
(* takes any name not yet taken.                                           *)
(***************************************************************************)
\* str::replace: every match of pattern in s, from left to right and without overlap
RECURSIVE replace(_, _, _)
replace(s, pattern, with) ==
    IF Len(s) < Len(pattern) THEN s
    ELSE IF SubSeq(s, 1, Len(pattern)) = pattern
    THEN with \o replace(SubSeq(s, Len(pattern) + 1, Len(s)), pattern, with)
    ELSE Char(s, 1) \o replace(SubSeq(s, 2, Len(s)), pattern, with)

\* format!("{{{}}}", name)
placeholder(name) == "{" \o name \o "}"

MaxFormatPieces == 2

FormatPieces == {"{a}", "{b}", "x", "{", "}"}

RECURSIVE FormatTemplates(_)
FormatTemplates(k) ==
    IF k = 0 THEN {""}
    ELSE FormatTemplates(k - 1)
         \cup {t \o piece : t \in FormatTemplates(k - 1), piece \in FormatPieces}

FormatNames == {"a", "b"}

FormatValues == {"1", "a", "{a}", "{b}"}

FormatMaps == UNION {[names -> FormatValues] : names \in SUBSET FormatNames}

InitFormat ==
    /\ pc = "format_prompt"
    /\ ParserUnused
    /\ LexerUnused
    /\ GeneratorUnused
    /\ call_content = ""
    /\ call_meaning = None
    /\ call_return_type = ""
    /\ prompt_result = "none"
    /\ decoded_via = ""
    /\ conversion = ""
    /\ returned = "none"
    /\ format_template \in FormatTemplates(MaxFormatPieces)
    /\ format_variables \in FormatMaps
    /\ format_result = format_template
    /\ format_pending = DOMAIN format_variables

\* one round of the loop: result = result.replace(&placeholder, value)
FormatReplace ==
    /\ pc = "format_prompt"
    /\ \E name \in format_pending :
           /\ format_result' = replace(format_result, placeholder(name),
                                       format_variables[name])
           /\ format_pending' = format_pending \ {name}
    /\ UNCHANGED <<pc, parser_vars, generator_vars, lexer_vars, format_template,
                   format_variables, call_content, call_meaning, call_return_type,
                   prompt_result, decoded_via, conversion, returned>>

\* the loop is over: result is returned
FormatReturn ==
    /\ pc = "format_prompt"
    /\ format_pending = {}
    /\ pc' = "formatted"
    /\ UNCHANGED <<parser_vars, generator_vars, lexer_vars, runtime_vars>>

NextFormat == FormatReplace \/ FormatReturn

SpecFormat == InitFormat /\ [][NextFormat]_vars

\* the names whose placeholder stands at the head of s
NamesAtHead(s, vmap) ==
    {name \in DOMAIN vmap :
        /\ Len(s) >= Len(placeholder(name))
        /\ SubSeq(s, 1, Len(placeholder(name))) = placeholder(name)}

\* s with each {name} occurrence replaced by that name's value, in one pass
RECURSIVE Substituted(_, _)
Substituted(s, vmap) ==
    IF s = "" THEN ""
    ELSE IF NamesAtHead(s, vmap) # {}
    THEN vmap[CHOOSE name \in NamesAtHead(s, vmap) : TRUE]
         \o Substituted(SubSeq(s, Len(placeholder(CHOOSE name \in NamesAtHead(s, vmap) : TRUE)) + 1,
                               Len(s)),
                        vmap)
    ELSE Char(s, 1) \o Substituted(SubSeq(s, 2, Len(s)), vmap)

(***************************************************************************)
(* C30: whatever the order in which the loop of format_prompt takes the    *)
(* variables, the result returned is the template with each {name}         *)
(* occurrence replaced by that name's value.  Violated: for the template   *)
(* "{a}" and the variables a = "{b}", b = "1" the result is "1" when a is  *)
(* taken first and "{b}" when b is taken first.                            *)
(***************************************************************************)
C30_OrderIndependent ==
    pc = "formatted" => format_result = Substituted(format_template, format_variables)

====
